---- MODULE Spec2Model ----
(***************************************************************************)
(* Model of the stm32h743-tools peripheral layer: the register field       *)
(* access primitives (register_tools.rs), the NVIC driver (interrupts.rs), *)
(* the timer driver (timers.rs), the serial driver (usart.rs) and the GPIO *)
(* pin setup it relies on (gpio.rs).                                       *)
(*                                                                         *)
(* A 32-bit register value is the set of the positions of its 1 bits, a    *)
(* subset of 0..31, so that every u32 value (0xFFFF_FFFF included) is      *)
(* representable and the bit operators of the code are set operators.      *)
(*                                                                         *)
(* A register is read/write storage, as the field access primitives treat  *)
(* it: a volatile read returns the value of the latest write.  The only    *)
(* bit the hardware changes on its own is the transmit-empty status bit of *)
(* a serial port.                                                          *)
(***************************************************************************)
EXTENDS Integers, Sequences, FiniteSets, TLC

VARIABLES
    mem,              \* the hardware register file: register name -> u32
    hist,             \* the calls made so far, each with the register file it started from
    overflow_checks,  \* build profile: TRUE when integer overflow panics (debug), FALSE when it wraps
    aborted,          \* TRUE once a call has panicked
    pc                \* the position of the main flow: idle, or inside write_usart_character

vars == <<mem, hist, overflow_checks, aborted, pc>>

(***************************************************************************)
(* Bounds of the model.                                                    *)
(***************************************************************************)
MaxCalls == 3

MaxFieldCalls == 2

MaxAnyCalls == 2

MaxUsartCalls == 2

MaxArrayCalls == 2

MaxGpioCalls == 2

MaxStepCalls == 2

MaxPreemptEvents == 3

\* The number of calls of write_usart_string followed when two writers share
\* the serial ports.
MaxStringCalls == 2

\* A call is recorded with its operation, its target instance (or register),
\* up to three numeric arguments and its result.
Call(op, tgt, x, y, z, ret) == [op |-> op, tgt |-> tgt, x |-> x, y |-> y, z |-> z, ret |-> ret]

NoCall == Call("none", "", 0, 0, 0, "")

Calls == Len(hist)

\* The latest call, and the register file it started from.
last == IF Calls > 0 THEN hist[Calls].call ELSE NoCall

pre == IF Calls > 0 THEN hist[Calls].before ELSE mem

\* The register file right after the latest call returned.
post == IF Calls > 0 THEN hist[Calls].after ELSE mem

\* The call before the latest one, and the register file it started from.
prev == IF Calls > 1 THEN hist[Calls - 1].call ELSE NoCall

pre2 == IF Calls > 1 THEN hist[Calls - 1].before ELSE pre

Record(call, after) == Append(hist, [call |-> call, before |-> mem, after |-> after])

Idle == [at |-> "idle", usart |-> "", character |-> 0]

\* The main flow is a single execution context: a call starts only when the
\* previous one has returned, and never after a panic.
CanCallUpTo(n) == ~aborted /\ pc.at = "idle" /\ Calls < n

CanCall == CanCallUpTo(MaxCalls)

CanCallField == CanCallUpTo(MaxFieldCalls)

CanCallUsart == CanCallUpTo(MaxUsartCalls)

(***************************************************************************)
(* u32 values as bit sets.                                                 *)
(***************************************************************************)
BitPos == 0..31

Zero == {}

AllOnes == BitPos

\* The u32 whose value is the natural number n, for n < 2^31.
ToWord(n) == {i \in 0..30 : (n \div (2^i)) % 2 = 1}

\* The bits pos .. pos+width-1 of w, moved down to position 0.
Field(w, pos, width) == {i - pos : i \in {j \in w : j >= pos /\ j < pos + width}}

\* a << n on u32 for n < 32: the bits shifted past bit 31 are dropped.
Shl(w, n) == {i + n : i \in {j \in w : j + n <= 31}}

\* a >> n on u32 for n < 32.
Shr(w, n) == {i - n : i \in {j \in w : j >= n}}

BitAnd(a, b) == a \cap b

BitOr(a, b) == a \cup b

BitXor(a, b) == (a \ b) \cup (b \ a)

BitNot(a) == BitPos \ a

\* n - 1 in wrapping u32 arithmetic, for a natural number n < 2^31.
WrappingDec(n) == IF n = 0 THEN AllOnes ELSE ToWord(n - 1)

\* The natural number a u32 below 2^31 stands for.
RECURSIVE ToNat(_)
ToNat(w) ==
    IF w = {} THEN 0
    ELSE LET i == CHOOSE j \in w : TRUE
         IN  2^i + ToNat(w \ {i})

(***************************************************************************)
(* register_tools.rs: one volatile read and one volatile write per call.   *)
(* Each operator maps the register file m to the register file after the   *)
(* call.                                                                   *)
(***************************************************************************)
read_register(m, register) == m[register]

write_register(m, register, value) == [m EXCEPT ![register] = value]

\* A variant that XORs the bit into the value read instead of ORing it.
set_bit_Xor(m, register, field) ==
    write_register(m, register, BitXor(read_register(m, register), Shl({0}, field)))

set_bit(m, register, field) ==
    write_register(m, register, BitOr(read_register(m, register), Shl({0}, field)))

clear_bit(m, register, field) ==
    write_register(m, register, BitAnd(read_register(m, register), BitNot(Shl({0}, field))))

get_bit(m, register, field) ==
    IF 0 \in BitAnd(Shr(read_register(m, register), field), {0}) THEN 1 ELSE 0

toggle_bit(m, register, field) ==
    write_register(m, register, BitXor(read_register(m, register), Shl({0}, field)))

write_bits(m, register, field, value, mask) ==
    write_register(m, register,
        BitOr(BitAnd(read_register(m, register), BitNot(Shl(mask, field))),
              Shl(value, field)))

(***************************************************************************)
(* register_tools.rs, array variants: the register is selected by id / 32  *)
(* and the bit by id % 32; the assertion aborts the call when the index is *)
(* not inside the list.  registers is a sequence, so registers[i] of the   *)
(* code is registers[i + 1] here.                                          *)
(***************************************************************************)
array_assert_fails(id, registers) == ~((id \div 32) < Len(registers))

\* A variant that clamps the index to the last register instead of aborting.
set_bit_in_array_Clamped(m, id, registers) ==
    IF array_assert_fails(id, registers) THEN set_bit(m, registers[Len(registers)], id % 32)
    ELSE set_bit(m, registers[(id \div 32) + 1], id % 32)

set_bit_in_array(m, id, registers) ==
    IF array_assert_fails(id, registers) THEN m
    ELSE set_bit(m, registers[(id \div 32) + 1], id % 32)

\* A variant that zeroes the whole selected register instead of one bit.
clear_bit_in_array_WholeRegister(m, id, registers) ==
    IF array_assert_fails(id, registers) THEN m
    ELSE write_register(m, registers[(id \div 32) + 1], Zero)

clear_bit_in_array(m, id, registers) ==
    IF array_assert_fails(id, registers) THEN m
    ELSE clear_bit(m, registers[(id \div 32) + 1], id % 32)

write_bits_in_array(m, id, value, mask, registers) ==
    IF array_assert_fails(id, registers) THEN m
    ELSE write_bits(m, registers[(id \div 32) + 1], id % 32, value, mask)

get_bits_in_array(m, id, mask, registers) ==
    IF array_assert_fails(id, registers) THEN Zero
    ELSE BitAnd(read_register(m, registers[(id \div 32) + 1]), Shl(mask, id % 32))

tools_enable_interrupt(m, id, interrupt_registers) ==
    set_bit_in_array(m, id, interrupt_registers)

tools_disable_interrupt(m, id, interrupt_registers) ==
    clear_bit_in_array(m, id, interrupt_registers)

(***************************************************************************)
(* interrupts.rs                                                           *)
(***************************************************************************)
NVIC_ISER_REGISTERS == <<"ISER0", "ISER1", "ISER2", "ISER3", "ISER4">>

NVIC_IPR_REGISTERS == <<
    "IPR0", "IPR1", "IPR2", "IPR3", "IPR4", "IPR5", "IPR6", "IPR7", "IPR8", "IPR9",
    "IPR10", "IPR11", "IPR12", "IPR13", "IPR14", "IPR15", "IPR16", "IPR17", "IPR18", "IPR19",
    "IPR20", "IPR21", "IPR22", "IPR23", "IPR24", "IPR25", "IPR26", "IPR27", "IPR28", "IPR29",
    "IPR30", "IPR31", "IPR32", "IPR33", "IPR34", "IPR35", "IPR36", "IPR37", "IPR38", "IPR39">>

\* IRQLevel::Level0 .. Level15 are the numbers 0 .. 15.
IRQLevel == 0..15

enable_interrupt(m, interrupt) ==
    tools_enable_interrupt(m, interrupt, NVIC_ISER_REGISTERS)

disable_interrupt(m, interrupt) ==
    tools_disable_interrupt(m, interrupt, NVIC_ISER_REGISTERS)

\* NVIC_IPR_REGISTERS[index] panics when index is outside the 40 registers.
set_irq_level_panics(irq_id) == ~((irq_id \div 4) < Len(NVIC_IPR_REGISTERS))

\* level << 4 is computed in u8 (at most 0xF0) and widened to u32.
set_irq_level(m, irq_id, level) ==
    IF set_irq_level_panics(irq_id) THEN m
    ELSE write_bits(m, NVIC_IPR_REGISTERS[(irq_id \div 4) + 1], (irq_id % 4) * 4,
                    ToWord((level * 16) % 256), ToWord(255))

(***************************************************************************)
(* A driver function is also written as the sequence of the calls it makes *)
(* to the primitives above, in program order.  A step is recorded like a   *)
(* call: the primitive, the register, and the arguments (field; or value;  *)
(* or field, value and mask; or the interrupt line).                       *)
(***************************************************************************)
Step(op, register, x, y, z) == Call(op, register, x, y, z, "")

\* The register file after the primitive call c.
apply_step(m, c) ==
    CASE c.op = "set_bit" -> set_bit(m, c.tgt, c.x)
      [] c.op = "clear_bit" -> clear_bit(m, c.tgt, c.x)
      [] c.op = "toggle_bit" -> toggle_bit(m, c.tgt, c.x)
      [] c.op = "write_register" -> write_register(m, c.tgt, c.x)
      [] c.op = "write_bits" -> write_bits(m, c.tgt, c.x, c.y, c.z)
      [] c.op = "enable_interrupt" -> enable_interrupt(m, c.x)

\* A variant in which the write half reads the register again.
field_op_write_Rereads(m, c, value_read) == apply_step(m, c)

\* The write half of the read-modify-write primitive c: the value the
\* primitive computes from value_read, the word its volatile read returned,
\* goes into the register, whatever the register holds by now.
field_op_write(m, c, value_read) ==
    write_register(m, c.tgt, apply_step([m EXCEPT ![c.tgt] = value_read], c)[c.tgt])

(***************************************************************************)
(* The register map (crate::registers): bit positions and interrupt line   *)
(* numbers of the STM32H743, selected by name in the drivers.              *)
(***************************************************************************)
TIM2EN == 0

TIM3EN == 1

TIM4EN == 2

TIM5EN == 3

USART2EN == 17

USART3EN == 18

CEN == 0

UIE == 0

UG == 0

UIF == 0

GPIOAEN == 0

GPIOBEN == 1

GPIOCEN == 2

GPIODEN == 3

GPIOEEN == 4

GPIOHEN == 7

GPIOIEN == 8

GPIOJEN == 9

GPIOKEN == 10

UE == 0

TE == 3

TXE == 7

BRR_4_15 == 4

BRR_0_3 == 0

TIM2_IRQ == 28

TIM3_IRQ == 29

TIM4_IRQ == 30

TIM5_IRQ == 50

(***************************************************************************)
(* timers.rs                                                               *)
(***************************************************************************)
Timer == {"Tim2", "Tim3", "Tim4", "Tim5"}

timer_module(timer) ==
    CASE timer = "Tim2" -> "tim2"
      [] timer = "Tim3" -> "tim3"
      [] timer = "Tim4" -> "tim4"
      [] timer = "Tim5" -> "tim5"

apb1lenr_clock_field(timer) ==
    CASE timer = "Tim2" -> TIM2EN
      [] timer = "Tim3" -> TIM3EN
      [] timer = "Tim4" -> TIM4EN
      [] timer = "Tim5" -> TIM5EN

psc_prescaler_register(timer) == timer_module(timer) \o "::PSC"

arr_auto_load_register(timer) == timer_module(timer) \o "::ARR"

cnt_register(timer) == timer_module(timer) \o "::CNT"

sr_status_register(timer) == timer_module(timer) \o "::SR"

get_cr1_control_register(timer) == timer_module(timer) \o "::CR1"

get_dier_interrupt_register(timer) == timer_module(timer) \o "::DIER"

get_egr_event_generator_register(timer) == timer_module(timer) \o "::EGR"

get_nvic_interrupt_id(timer) ==
    CASE timer = "Tim2" -> TIM2_IRQ
      [] timer = "Tim3" -> TIM3_IRQ
      [] timer = "Tim4" -> TIM4_IRQ
      [] timer = "Tim5" -> TIM5_IRQ

\* (clock_frequency / 1_000_000) - 1 in u32: the subtraction overflows when
\* the quotient is 0.
prescaler_overflows(clock_frequency) == (clock_frequency \div 1000000) = 0

timer_prescaler(clock_frequency) == WrappingDec(clock_frequency \div 1000000)

\* (interval_ms as u32 * 1_000) - 1: interval_ms is a u16, the product fits.
timer_auto_reload(interval_ms) == WrappingDec(interval_ms * 1000)

\* The register writes of a start that passed validation, in program order.
setup_cyclical_timer_writes(m, timer, clock_frequency, interval_ms) ==
    LET m1 == set_bit(m, "rcc::APB1LENR", apb1lenr_clock_field(timer))
        m2 == write_register(m1, psc_prescaler_register(timer), timer_prescaler(clock_frequency))
        m3 == write_register(m2, arr_auto_load_register(timer), timer_auto_reload(interval_ms))
        m4 == set_bit(m3, get_egr_event_generator_register(timer), UG)
        m5 == set_bit(m4, get_dier_interrupt_register(timer), UIE)
        m6 == enable_interrupt(m5, get_nvic_interrupt_id(timer))
        m7 == set_bit(m6, get_cr1_control_register(timer), CEN)
    IN  m7

\* A variant that enables the counter before it forces the update event.
setup_cyclical_timer_steps_CounterFirst(timer, clock_frequency, interval_ms) ==
    IF \/ clock_frequency = 0
       \/ interval_ms = 0
       \/ (prescaler_overflows(clock_frequency) /\ overflow_checks)
    THEN <<>>
    ELSE <<Step("set_bit", "rcc::APB1LENR", apb1lenr_clock_field(timer), 0, 0),
           Step("write_register", psc_prescaler_register(timer),
                timer_prescaler(clock_frequency), 0, 0),
           Step("write_register", arr_auto_load_register(timer),
                timer_auto_reload(interval_ms), 0, 0),
           Step("set_bit", get_cr1_control_register(timer), CEN, 0, 0),
           Step("set_bit", get_egr_event_generator_register(timer), UG, 0, 0),
           Step("set_bit", get_dier_interrupt_register(timer), UIE, 0, 0),
           Step("enable_interrupt", "nvic", get_nvic_interrupt_id(timer), 0, 0)>>

\* The calls setup_cyclical_timer makes, in program order; none when it
\* rejects its arguments or panics on the prescaler.
setup_cyclical_timer_steps(timer, clock_frequency, interval_ms) ==
    IF \/ clock_frequency = 0
       \/ interval_ms = 0
       \/ (prescaler_overflows(clock_frequency) /\ overflow_checks)
    THEN <<>>
    ELSE <<Step("set_bit", "rcc::APB1LENR", apb1lenr_clock_field(timer), 0, 0),
           Step("write_register", psc_prescaler_register(timer),
                timer_prescaler(clock_frequency), 0, 0),
           Step("write_register", arr_auto_load_register(timer),
                timer_auto_reload(interval_ms), 0, 0),
           Step("set_bit", get_egr_event_generator_register(timer), UG, 0, 0),
           Step("set_bit", get_dier_interrupt_register(timer), UIE, 0, 0),
           Step("enable_interrupt", "nvic", get_nvic_interrupt_id(timer), 0, 0),
           Step("set_bit", get_cr1_control_register(timer), CEN, 0, 0)>>

\* A variant that enables the bus clock before validating its arguments.
setup_cyclical_timer_ClockBeforeValidation(m, timer, clock_frequency, interval_ms) ==
    LET m0 == set_bit(m, "rcc::APB1LENR", apb1lenr_clock_field(timer))
    IN  IF clock_frequency = 0 THEN [ret |-> "InvalidClockSpeed", mem |-> m0]
        ELSE IF interval_ms = 0 THEN [ret |-> "InvalidInterval", mem |-> m0]
        ELSE IF prescaler_overflows(clock_frequency) /\ overflow_checks
             THEN [ret |-> "panic", mem |-> m0]
        ELSE [ret |-> "Ok",
              mem |-> setup_cyclical_timer_writes(m, timer, clock_frequency, interval_ms)]

\* The result and the register file of setup_cyclical_timer.  "panic" is the
\* arithmetic-overflow panic of a build with overflow checks.
setup_cyclical_timer(m, timer, clock_frequency, interval_ms) ==
    IF clock_frequency = 0 THEN [ret |-> "InvalidClockSpeed", mem |-> m]
    ELSE IF interval_ms = 0 THEN [ret |-> "InvalidInterval", mem |-> m]
    ELSE IF prescaler_overflows(clock_frequency) /\ overflow_checks
         THEN [ret |-> "panic", mem |-> m]
    ELSE [ret |-> "Ok",
          mem |-> setup_cyclical_timer_writes(m, timer, clock_frequency, interval_ms)]

\* A variant that leaves the update-interrupt-enable bit alone.
cleanup_timer_KeepsUie(m, timer) ==
    LET m1 == clear_bit(m, get_cr1_control_register(timer), CEN)
        m3 == set_bit(m1, get_egr_event_generator_register(timer), UG)
        m4 == disable_interrupt(m3, get_nvic_interrupt_id(timer))
    IN  m4

\* A variant that toggles the update-generation bit instead of setting it.
cleanup_timer_TogglesUg(m, timer) ==
    LET m1 == clear_bit(m, get_cr1_control_register(timer), CEN)
        m2 == clear_bit(m1, get_dier_interrupt_register(timer), UIE)
        m3 == toggle_bit(m2, get_egr_event_generator_register(timer), UG)
        m4 == disable_interrupt(m3, get_nvic_interrupt_id(timer))
    IN  m4

cleanup_timer(m, timer) ==
    LET m1 == clear_bit(m, get_cr1_control_register(timer), CEN)
        m2 == clear_bit(m1, get_dier_interrupt_register(timer), UIE)
        m3 == set_bit(m2, get_egr_event_generator_register(timer), UG)
        m4 == disable_interrupt(m3, get_nvic_interrupt_id(timer))
    IN  m4

clear_timer_interrupt_flag(m, timer) == clear_bit(m, sr_status_register(timer), UIF)

\* The counter register read as u32, widened to u64 and multiplied by 1_000.
\* The counters of the model stay far below 2^31 / 1_000_000, so neither
\* product leaves the integers of the model.
get_now_us(m, timer) == ToNat(read_register(m, cnt_register(timer))) * 1000

get_now_ns(m, timer) == get_now_us(m, timer) * 1000

\* The counter hardware: an enabled counter counts up from 0 to the
\* auto-reload value and starts again at 0.  The register file after ticks
\* counting steps.
timer_counts(m, timer, ticks) ==
    write_register(m, cnt_register(timer),
        ToWord((ToNat(read_register(m, cnt_register(timer))) + ticks)
                  % (ToNat(read_register(m, arr_auto_load_register(timer))) + 1)))

(***************************************************************************)
(* gpio.rs                                                                 *)
(***************************************************************************)
GpioRegister == {"GpioA", "GpioB", "GpioC", "GpioD", "GpioE", "GpioH", "GpioI", "GpioJ", "GpioK"}

\* GpioPin::P0 .. P15 are the numbers 0 .. 15.
GpioPin == 0..15

Input == 0

Output == 1

Alternate == 2

Analog == 3

GpioMode == {Input, Output, Alternate, Analog}

NoPull == 0

PullDown == 1

PullUp == 2

GpioPull == {NoPull, PullDown, PullUp}

PushPull == 0

OpenDrain == 1

GpioOutputMode == {PushPull, OpenDrain}

LowSpeed == 0

MediumSpeed == 1

HighSpeed == 2

VeryHighSpeed == 3

GpioSpeed == {LowSpeed, MediumSpeed, HighSpeed, VeryHighSpeed}

\* GpioAlternate::AF0 .. AF15 are the numbers 0 .. 15.
GpioAlternate == 0..15

AF7 == 7

Gpio_new ==
    [register |-> "GpioA", pin |-> 0, mode |-> Input, output_mode |-> PushPull,
     pull |-> NoPull, speed |-> LowSpeed, alternate |-> 0]

gpio_module(register) ==
    CASE register = "GpioA" -> "gpioa"
      [] register = "GpioB" -> "gpiob"
      [] register = "GpioC" -> "gpioc"
      [] register = "GpioD" -> "gpiod"
      [] register = "GpioE" -> "gpioe"
      [] register = "GpioH" -> "gpioh"
      [] register = "GpioI" -> "gpioi"
      [] register = "GpioJ" -> "gpioj"
      [] register = "GpioK" -> "gpiok"

ahb1_en_field(register) ==
    CASE register = "GpioA" -> GPIOAEN
      [] register = "GpioB" -> GPIOBEN
      [] register = "GpioC" -> GPIOCEN
      [] register = "GpioD" -> GPIODEN
      [] register = "GpioE" -> GPIOEEN
      [] register = "GpioH" -> GPIOHEN
      [] register = "GpioI" -> GPIOIEN
      [] register = "GpioJ" -> GPIOJEN
      [] register = "GpioK" -> GPIOKEN

moder_register(register) == gpio_module(register) \o "::MODER"

otyper_register(register) == gpio_module(register) \o "::OTYPER"

pupdr_register(register) == gpio_module(register) \o "::PUPDR"

afr_register(register, pin) ==
    IF pin < 8 THEN gpio_module(register) \o "::AFRL"
    ELSE gpio_module(register) \o "::AFRH"

\* A variant that ORs the mode into the mode register without clearing the field.
Gpio_setup_OrsMode(m, self) ==
    LET m1 == set_bit(m, "rcc::AHB4ENR", ahb1_en_field(self.register))
        m2 == write_bits(m1, moder_register(self.register), self.pin * 2,
                         ToWord(self.mode), Zero)
        m3 == IF self.output_mode = PushPull
              THEN clear_bit(m2, otyper_register(self.register), self.pin)
              ELSE set_bit(m2, otyper_register(self.register), self.pin)
        m4 == write_bits(m3, pupdr_register(self.register), self.pin,
                         ToWord(self.pull), ToWord(3))
        m5 == IF self.mode = Alternate
              THEN write_bits(m4, afr_register(self.register, self.pin), (self.pin % 8) * 4,
                              ToWord(self.alternate), ToWord(15))
              ELSE m4
    IN  m5

\* A variant that writes the alternate-function selector whatever the mode is.
Gpio_setup_AlwaysAf(m, self) ==
    LET m1 == set_bit(m, "rcc::AHB4ENR", ahb1_en_field(self.register))
        m2 == write_bits(m1, moder_register(self.register), self.pin * 2,
                         ToWord(self.mode), ToWord(3))
        m3 == IF self.output_mode = PushPull
              THEN clear_bit(m2, otyper_register(self.register), self.pin)
              ELSE set_bit(m2, otyper_register(self.register), self.pin)
        m4 == write_bits(m3, pupdr_register(self.register), self.pin,
                         ToWord(self.pull), ToWord(3))
        m5 == write_bits(m4, afr_register(self.register, self.pin), (self.pin % 8) * 4,
                         ToWord(self.alternate), ToWord(15))
    IN  m5

\* A variant that also writes the speed, into the output-speed register of
\* the port.
Gpio_setup_WritesSpeed(m, self) ==
    LET m1 == set_bit(m, "rcc::AHB4ENR", ahb1_en_field(self.register))
        m2 == write_bits(m1, moder_register(self.register), self.pin * 2,
                         ToWord(self.mode), ToWord(3))
        m3 == IF self.output_mode = PushPull
              THEN clear_bit(m2, otyper_register(self.register), self.pin)
              ELSE set_bit(m2, otyper_register(self.register), self.pin)
        m4 == write_bits(m3, pupdr_register(self.register), self.pin,
                         ToWord(self.pull), ToWord(3))
        m5 == IF self.mode = Alternate
              THEN write_bits(m4, afr_register(self.register, self.pin), (self.pin % 8) * 4,
                              ToWord(self.alternate), ToWord(15))
              ELSE m4
    IN  write_bits(m5, gpio_module(self.register) \o "::OSPEEDR", self.pin * 2,
                   ToWord(self.speed), ToWord(3))

\* Gpio::setup: the register file after applying the descriptor self.
Gpio_setup(m, self) ==
    LET m1 == set_bit(m, "rcc::AHB4ENR", ahb1_en_field(self.register))
        m2 == write_bits(m1, moder_register(self.register), self.pin * 2,
                         ToWord(self.mode), ToWord(3))
        m3 == IF self.output_mode = PushPull
              THEN clear_bit(m2, otyper_register(self.register), self.pin)
              ELSE set_bit(m2, otyper_register(self.register), self.pin)
        m4 == write_bits(m3, pupdr_register(self.register), self.pin,
                         ToWord(self.pull), ToWord(3))
        m5 == IF self.mode = Alternate
              THEN write_bits(m4, afr_register(self.register, self.pin), (self.pin % 8) * 4,
                              ToWord(self.alternate), ToWord(15))
              ELSE m4
    IN  m5

\* The calls Gpio::setup makes, in program order.
Gpio_setup_steps(self) ==
    <<Step("set_bit", "rcc::AHB4ENR", ahb1_en_field(self.register), 0, 0),
      Step("write_bits", moder_register(self.register), self.pin * 2,
           ToWord(self.mode), ToWord(3)),
      Step(IF self.output_mode = PushPull THEN "clear_bit" ELSE "set_bit",
           otyper_register(self.register), self.pin, 0, 0),
      Step("write_bits", pupdr_register(self.register), self.pin,
           ToWord(self.pull), ToWord(3))>>
    \o (IF self.mode = Alternate
        THEN <<Step("write_bits", afr_register(self.register, self.pin), (self.pin % 8) * 4,
                    ToWord(self.alternate), ToWord(15))>>
        ELSE <<>>)

(***************************************************************************)
(* IEEE-754 binary32 arithmetic as setup_usart uses it.  A positive f32 is *)
(* a 24-bit significand times a power of two; the values needed here are   *)
(* written sig / 2^exp with exp >= 0.  Rounding is to nearest, ties to     *)
(* even.  All intermediate numbers stay below 2^31.                        *)
(***************************************************************************)
BitLen(n) == IF n = 0 THEN 0 ELSE CHOOSE l \in 1..31 : 2^(l - 1) <= n /\ (l = 31 \/ n < 2^l)

\* q + r/d rounded to an integer, 0 <= r < d.
RoundHalfEven(q, r, d) ==
    IF 2 * r > d THEN q + 1
    ELSE IF 2 * r = d THEN q + (q % 2)
    ELSE q

\* n as f32, for an integer 0 <= n <= 2^30: the integer the cast yields.
u32_as_f32(n) ==
    IF n < 2^24 THEN n
    ELSE LET s == 2^(BitLen(n) - 24)
         IN  RoundHalfEven(n \div s, n % s, s) * s

\* Long division: extend the significand sig (remainder r over d) by one
\* binary digit at a time until it has 24 bits; MaxF32Exp digits are enough
\* for every quotient that is not below 2^-6.
MaxF32Exp == 29

RECURSIVE f32_div_digits(_, _, _, _)
f32_div_digits(sig, r, d, exp) ==
    IF sig >= 2^23 \/ exp >= MaxF32Exp THEN [sig |-> sig, r |-> r, exp |-> exp]
    ELSE f32_div_digits(2 * sig + ((2 * r) \div d), (2 * r) % d, d, exp + 1)

\* c / d in f32 for integers c >= 0 and 0 < d < 2^30 that are exact f32
\* values: the quotient is result.sig / 2^result.exp.
f32_div(c, d) ==
    LET q == c \div d
        r == c % d
    IN  IF q >= 2^24
        THEN LET s    == 2^(BitLen(q) - 24)
                 rem  == q % s
                 half == s \div 2
                 up   == rem > half \/ (rem = half /\ r > 0)
                         \/ (rem = half /\ r = 0 /\ ((q \div s) % 2) = 1)
             IN  [sig |-> ((q \div s) + (IF up THEN 1 ELSE 0)) * s, exp |-> 0]
        ELSE LET g == f32_div_digits(q, r, d, 0)
             IN  [sig |-> RoundHalfEven(g.sig, g.r, d), exp |-> g.exp]

\* usartdiv as u32: truncation toward zero.
f32_trunc(f) == f.sig \div (2^f.exp)

\* ((usartdiv - mantissa as f32) * 16.0) as u32: the subtraction and the
\* multiplication are exact, the cast truncates.
f32_fraction16(f) ==
    LET frac == f.sig % (2^f.exp)
    IN  IF f.exp >= 4 THEN frac \div (2^(f.exp - 4)) ELSE frac * 2^(4 - f.exp)

(***************************************************************************)
(* usart.rs                                                                *)
(***************************************************************************)
USART == {"USART2", "USART3"}

usart_module(usart) ==
    CASE usart = "USART2" -> "usart2"
      [] usart = "USART3" -> "usart3"

get_cr_usart_control_register(usart) == usart_module(usart) \o "::CR1"

get_apb1lenr_usart_clock_enable_field(usart) ==
    CASE usart = "USART2" -> USART2EN
      [] usart = "USART3" -> USART3EN

ahb4enr_gpio_clock_enable_field(usart) ==
    CASE usart = "USART2" -> GPIOAEN
      [] usart = "USART3" -> GPIODEN

usart_tx_gpio(usart) ==
    [(CASE usart = "USART2" -> [Gpio_new EXCEPT !.register = "GpioA", !.pin = 2]
        [] usart = "USART3" -> [Gpio_new EXCEPT !.register = "GpioD", !.pin = 8])
     EXCEPT !.mode = Alternate, !.speed = HighSpeed, !.alternate = AF7]

usart_rx_gpio(usart) ==
    [(CASE usart = "USART2" -> [Gpio_new EXCEPT !.register = "GpioA", !.pin = 3]
        [] usart = "USART3" -> [Gpio_new EXCEPT !.register = "GpioD", !.pin = 9])
     EXCEPT !.mode = Alternate, !.speed = HighSpeed, !.alternate = AF7]

brr_usart_baud_rate_register(usart) == usart_module(usart) \o "::BRR"

isr_usart_interrupt_register(usart) == usart_module(usart) \o "::ISR"

tdr_usart_data_register(usart) == usart_module(usart) \o "::TDR"

\* clock_speed as f32 / (baud_rate << 4) as f32.  The baud rates of the model
\* are below 2^26, so the shift loses no bit.
usartdiv(clock_speed, baud_rate) == f32_div(u32_as_f32(clock_speed), u32_as_f32(baud_rate * 16))

usart_mantissa(clock_speed, baud_rate) == f32_trunc(usartdiv(clock_speed, baud_rate))

usart_fraction(clock_speed, baud_rate) == f32_fraction16(usartdiv(clock_speed, baud_rate))

setup_usart(m, clock_speed, baud_rate, usart) ==
    LET cr == get_cr_usart_control_register(usart)
        m1 == clear_bit(m, cr, UE)
        m2 == set_bit(m1, "rcc::APB1LENR", get_apb1lenr_usart_clock_enable_field(usart))
        m3 == set_bit(m2, "rcc::AHB4ENR", ahb4enr_gpio_clock_enable_field(usart))
        m4 == Gpio_setup(m3, usart_tx_gpio(usart))
        m5 == Gpio_setup(m4, usart_rx_gpio(usart))
        m6 == write_bits(m5, brr_usart_baud_rate_register(usart), BRR_4_15,
                         ToWord(usart_mantissa(clock_speed, baud_rate)), ToWord(4095))
        m7 == write_bits(m6, brr_usart_baud_rate_register(usart), BRR_0_3,
                         ToWord(usart_fraction(clock_speed, baud_rate)), ToWord(15))
        m8 == set_bit(m7, cr, TE)
        m9 == set_bit(m8, cr, UE)
    IN  m9

\* A variant that enables the port before it writes the baud rate.
setup_usart_steps_EnableBeforeBaud(clock_speed, baud_rate, usart) ==
    <<Step("clear_bit", get_cr_usart_control_register(usart), UE, 0, 0),
      Step("set_bit", "rcc::APB1LENR", get_apb1lenr_usart_clock_enable_field(usart), 0, 0),
      Step("set_bit", "rcc::AHB4ENR", ahb4enr_gpio_clock_enable_field(usart), 0, 0)>>
    \o Gpio_setup_steps(usart_tx_gpio(usart))
    \o Gpio_setup_steps(usart_rx_gpio(usart))
    \o <<Step("set_bit", get_cr_usart_control_register(usart), UE, 0, 0),
          Step("write_bits", brr_usart_baud_rate_register(usart), BRR_4_15,
               ToWord(usart_mantissa(clock_speed, baud_rate)), ToWord(4095)),
          Step("write_bits", brr_usart_baud_rate_register(usart), BRR_0_3,
               ToWord(usart_fraction(clock_speed, baud_rate)), ToWord(15)),
          Step("set_bit", get_cr_usart_control_register(usart), TE, 0, 0)>>

\* The calls setup_usart makes, in program order.
setup_usart_steps(clock_speed, baud_rate, usart) ==
    <<Step("clear_bit", get_cr_usart_control_register(usart), UE, 0, 0),
      Step("set_bit", "rcc::APB1LENR", get_apb1lenr_usart_clock_enable_field(usart), 0, 0),
      Step("set_bit", "rcc::AHB4ENR", ahb4enr_gpio_clock_enable_field(usart), 0, 0)>>
    \o Gpio_setup_steps(usart_tx_gpio(usart))
    \o Gpio_setup_steps(usart_rx_gpio(usart))
    \o <<Step("write_bits", brr_usart_baud_rate_register(usart), BRR_4_15,
               ToWord(usart_mantissa(clock_speed, baud_rate)), ToWord(4095)),
          Step("write_bits", brr_usart_baud_rate_register(usart), BRR_0_3,
               ToWord(usart_fraction(clock_speed, baud_rate)), ToWord(15)),
          Step("set_bit", get_cr_usart_control_register(usart), TE, 0, 0),
          Step("set_bit", get_cr_usart_control_register(usart), UE, 0, 0)>>

\* A variant that leaves the transmitter enabled.
cleanup_usart_KeepsTransmit(m, usart) ==
    LET cr == get_cr_usart_control_register(usart)
        m1 == clear_bit(m, "rcc::APB1LENR", get_apb1lenr_usart_clock_enable_field(usart))
        m3 == clear_bit(m1, cr, UE)
    IN  m3

cleanup_usart(m, usart) ==
    LET cr == get_cr_usart_control_register(usart)
        m1 == clear_bit(m, "rcc::APB1LENR", get_apb1lenr_usart_clock_enable_field(usart))
        m2 == clear_bit(m1, cr, TE)
        m3 == clear_bit(m2, cr, UE)
    IN  m3

\* A variant that is satisfied with either of the two enable bits.
is_usart_setup_Either(m, usart) ==
    LET transmit_enable == get_bit(m, get_cr_usart_control_register(usart), TE) = 1
        usart_enable    == get_bit(m, get_cr_usart_control_register(usart), UE) = 1
    IN  transmit_enable \/ usart_enable

is_usart_setup(m, usart) ==
    LET transmit_enable == get_bit(m, get_cr_usart_control_register(usart), TE) = 1
        usart_enable    == get_bit(m, get_cr_usart_control_register(usart), UE) = 1
    IN  transmit_enable /\ usart_enable

\* A variant without the readiness check.
write_usart_character_enters_wait_Always(m, usart) == TRUE

\* write_usart_character up to its busy-wait: TRUE when the call goes on to
\* the wait loop, FALSE when it returns at once.
write_usart_character_enters_wait(m, usart) == is_usart_setup(m, usart)

\* A variant whose loop waits for the transmit-empty bit to be clear.
write_usart_character_spins_Inverted(m, usart) ==
    get_bit(m, isr_usart_interrupt_register(usart), TXE) = 1

\* The loop condition of the busy-wait: TRUE while the call keeps spinning.
write_usart_character_spins(m, usart) ==
    get_bit(m, isr_usart_interrupt_register(usart), TXE) = 0

\* The write that follows the busy-wait: character as u32 into the data register.
write_usart_character_store(m, usart, character) ==
    write_register(m, tdr_usart_data_register(usart), ToWord(character))

\* write_usart_string iterates over string.chars(): a string is modelled as
\* the sequence of its chars, taken from the front.  A variant that takes
\* them from the back comes first.
write_usart_string_character_Last(todo) == todo[Len(todo)]

write_usart_string_character(todo) == Head(todo)

\* write_usart_string up to its first busy-wait: TRUE when the call goes on
\* to write characters, FALSE when it returns at once.
write_usart_string_enters_loop(m, usart) == is_usart_setup(m, usart)

(***************************************************************************)
(* The register file.                                                      *)
(***************************************************************************)
SeqRange(sq) == {sq[i] : i \in 1..Len(sq)}

Registers ==
    {"rcc::APB1LENR", "rcc::AHB4ENR"}
    \cup SeqRange(NVIC_ISER_REGISTERS) \cup SeqRange(NVIC_IPR_REGISTERS)
    \cup {timer_module(t) \o r : t \in Timer,
             r \in {"::CR1", "::PSC", "::ARR", "::EGR", "::DIER", "::SR", "::CNT"}}
    \cup {usart_module(u) \o r : u \in USART, r \in {"::CR1", "::BRR", "::ISR", "::TDR"}}
    \cup {gpio_module(g) \o r : g \in GpioRegister,
             r \in {"::MODER", "::OTYPER", "::OSPEEDR", "::PUPDR", "::AFRL", "::AFRH",
                    "::IDR", "::ODR"}}

ResetRegisters == [r \in Registers |-> Zero]

(***************************************************************************)
(* Inputs of the calls.                                                    *)
(***************************************************************************)
ClockFrequencies == {0, 500000, 16000000}

Intervals == {0, 1000}

InterruptIds == {5, 28, 50, 159, 160}

IrqLevels == {0, 3, 15}

FieldRegister == "tim2::ARR"

InitWords == {Zero, AllOnes, ToWord(1), ToWord(42405), ToWord(1431655765)}

Fields == {0, 4, 31}

FieldValues == {1, 3, 10}

FieldMasks == {1, 3, 15}

UsartClocks == {16000000}

BaudRates == {9600, 115200}

Characters == {65}

\* The timer whose counter is read, its clock and its interval, and the
\* numbers of counting steps between two calls.
ClockTimers == {"Tim2"}

ClockIntervals == {1}

TickSteps == {400}

\* The values and masks handed to the array variants.
ArrayValues == {1, 3}

ArrayMasks == {1, 3}

\* The pin descriptors handed to Gpio::setup: one port, pin 0, a further pin
\* of the low half and a pin of the high half, every mode, and settings in
\* which every output type, pull and speed and two complementary selectors
\* occur.
GpioPorts == {"GpioD"}

GpioPins == {0, 3, 9}

GpioSettings ==
    {<<PushPull, NoPull, LowSpeed, 5>>, <<OpenDrain, PullUp, VeryHighSpeed, 10>>,
     <<PushPull, PullDown, MediumSpeed, 10>>, <<OpenDrain, NoPull, HighSpeed, 5>>}

GpioDescriptors ==
    {[register |-> r, pin |-> p, mode |-> md, output_mode |-> st[1], pull |-> st[2],
      speed |-> st[3], alternate |-> st[4]] :
        r \in GpioPorts, p \in GpioPins, md \in GpioMode, st \in GpioSettings}

\* The descriptors of the serial pins and of an open-drain output with a
\* pull-up, each with every speed.
SpeedDescriptors ==
    {[self EXCEPT !.speed = speed] :
        self \in {usart_tx_gpio(usart) : usart \in USART}
                 \cup {usart_rx_gpio(usart) : usart \in USART}
                 \cup {[Gpio_new EXCEPT !.register = "GpioD", !.pin = 3, !.mode = Output,
                                        !.output_mode = OpenDrain, !.pull = PullUp]},
        speed \in GpioSpeed}

\* The inputs of the calls that are followed primitive by primitive.
StepIntervals == {0, 1000}

StepDescriptors == {self \in GpioDescriptors : self.pin = 9 /\ self.output_mode = OpenDrain}

\* The field operations of the main flow that an interrupt handler may
\* preempt, and the timers whose handler clears the update flag.
PreemptRegister == "tim2::SR"

PreemptFields == {0, 4}

PreemptOps ==
    {Step(op, PreemptRegister, f, 0, 0) :
        op \in {"set_bit", "clear_bit", "toggle_bit"}, f \in PreemptFields}
    \cup {Step("write_bits", PreemptRegister, f, ToWord(v), ToWord(3)) :
            f \in PreemptFields, v \in {1, 2}}

HandlerTimers == {"Tim2", "Tim3"}

\* The characters whose transmission is followed to its end: one below and
\* one above 255.
LiveCharacters == {65, 8364}

\* The strings written by the two writers: "Hi" and the euro sign.
Strings == {<<72, 105>>, <<8364>>}

\* The two execution contexts that write strings: the main flow and an
\* interrupt handler.
Writers == {"main", "handler"}

(***************************************************************************)
(* Initial states.                                                         *)
(***************************************************************************)
InitCommon ==
    /\ hist = <<>>
    /\ aborted = FALSE
    /\ pc = Idle

\* The register file after reset, for the drivers whose arithmetic cannot
\* overflow: the build profile makes no difference to them.
Init ==
    /\ mem = ResetRegisters
    /\ overflow_checks = FALSE
    /\ InitCommon

\* The register file after reset, in either build profile.
InitTimer ==
    /\ mem = ResetRegisters
    /\ overflow_checks \in BOOLEAN
    /\ InitCommon

\* One register holds an arbitrary word: the caller of a field primitive
\* hands it a register in any state.
InitField ==
    /\ \E v \in InitWords : mem = [ResetRegisters EXCEPT ![FieldRegister] = v]
    /\ overflow_checks = FALSE
    /\ InitCommon

\* One timer is found in an arbitrary state of its counter-enable bit, its
\* update-interrupt-enable bit and its NVIC line.
InitTimerAny ==
    /\ \E t \in Timer, cen \in BOOLEAN, uie \in BOOLEAN, line \in BOOLEAN :
          mem = [ResetRegisters EXCEPT
                    ![get_cr1_control_register(t)] = IF cen THEN {CEN} ELSE Zero,
                    ![get_dier_interrupt_register(t)] = IF uie THEN {UIE} ELSE Zero,
                    ![NVIC_ISER_REGISTERS[(get_nvic_interrupt_id(t) \div 32) + 1]] =
                        IF line THEN {get_nvic_interrupt_id(t) % 32} ELSE Zero]
    /\ overflow_checks \in BOOLEAN
    /\ InitCommon

\* One serial port is found in an arbitrary state of its transmit-enable and
\* port-enable bits.
InitUsartAny ==
    /\ \E u \in USART, te \in BOOLEAN, ue \in BOOLEAN :
          mem = [ResetRegisters EXCEPT
                    ![get_cr_usart_control_register(u)] =
                        (IF te THEN {TE} ELSE Zero) \cup (IF ue THEN {UE} ELSE Zero)]
    /\ overflow_checks = FALSE
    /\ InitCommon

\* The serial ports are found in any of these states: the bus-clock enable
\* register clear or all ones, each port's control register clear, ready or
\* all ones, every other register at its reset value or all ones.
InitStop ==
    /\ \E clocks \in {Zero, AllOnes}, others \in {Zero, AllOnes},
          cr \in [USART -> {Zero, {TE, UE}, AllOnes}] :
          mem = [register \in Registers |->
                    IF register = "rcc::APB1LENR" THEN clocks
                    ELSE IF \E u \in USART : register = get_cr_usart_control_register(u)
                         THEN cr[CHOOSE u \in USART :
                                    register = get_cr_usart_control_register(u)]
                         ELSE others]
    /\ overflow_checks = FALSE
    /\ InitCommon

\* The configuration registers of the GPIO ports are found all clear or all
\* set: an earlier configuration may have left any value in them.
InitGpio ==
    /\ \E w \in {Zero, AllOnes} :
          mem = [r \in Registers |->
                    IF r \in {gpio_module(g) \o x : g \in GpioPorts,
                                 x \in {"::MODER", "::OTYPER", "::PUPDR", "::AFRL", "::AFRH"}}
                    THEN w ELSE Zero]
    /\ overflow_checks = FALSE
    /\ InitCommon

\* The status registers of the timers hold a pending update flag, alone or
\* among other bits.
InitPreempt ==
    /\ \E w \in {{UIF}, ToWord(42405), AllOnes} :
          mem = [r \in Registers |->
                    IF r \in {sr_status_register(t) : t \in HandlerTimers} THEN w ELSE Zero]
    /\ overflow_checks = FALSE
    /\ InitCommon

(***************************************************************************)
(* Calls of the field access primitives on FieldRegister.                  *)
(***************************************************************************)
SetBit(field) ==
    /\ CanCallField
    /\ mem' = set_bit(mem, FieldRegister, field)
    /\ hist' = Record(Call("set_bit", FieldRegister, field, 0, 0, ""), mem')
    /\ UNCHANGED <<overflow_checks, aborted, pc>>

ClearBit(field) ==
    /\ CanCallField
    /\ mem' = clear_bit(mem, FieldRegister, field)
    /\ hist' = Record(Call("clear_bit", FieldRegister, field, 0, 0, ""), mem')
    /\ UNCHANGED <<overflow_checks, aborted, pc>>

ToggleBit(field) ==
    /\ CanCallField
    /\ mem' = toggle_bit(mem, FieldRegister, field)
    /\ hist' = Record(Call("toggle_bit", FieldRegister, field, 0, 0, ""), mem')
    /\ UNCHANGED <<overflow_checks, aborted, pc>>

GetBit(field) ==
    /\ CanCallField
    /\ hist' = Record(Call("get_bit", FieldRegister, field, 0, 0,
                           IF get_bit(mem, FieldRegister, field) = 1 THEN "1" ELSE "0"), mem)
    /\ UNCHANGED <<mem, overflow_checks, aborted, pc>>

WriteBits(field, value, mask) ==
    /\ CanCallField
    /\ mem' = write_bits(mem, FieldRegister, field, ToWord(value), ToWord(mask))
    /\ hist' = Record(Call("write_bits", FieldRegister, field, value, mask, ""), mem')
    /\ UNCHANGED <<overflow_checks, aborted, pc>>

NextField ==
    \/ \E field \in Fields : SetBit(field)
    \/ \E field \in Fields : ClearBit(field)
    \/ \E field \in Fields : ToggleBit(field)
    \/ \E field \in Fields : GetBit(field)
    \/ \E field \in Fields, value \in FieldValues, mask \in FieldMasks :
          WriteBits(field, value, mask)

SpecField == InitField /\ [][NextField]_vars

\* set_bit and toggle_bit on every bit position of FieldRegister.
NextBit ==
    \/ \E field \in BitPos : SetBit(field)
    \/ \E field \in BitPos : ToggleBit(field)

SpecBit == InitField /\ [][NextBit]_vars

(***************************************************************************)
(* Calls of the interrupt controller driver.                               *)
(***************************************************************************)
EnableInterrupt(interrupt) ==
    /\ CanCall
    /\ LET fails == array_assert_fails(interrupt, NVIC_ISER_REGISTERS)
       IN  /\ mem' = enable_interrupt(mem, interrupt)
           /\ aborted' = fails
           /\ hist' = Record(Call("enable_interrupt", "nvic", interrupt, 0, 0,
                                  IF fails THEN "panic" ELSE ""), mem')
    /\ UNCHANGED <<overflow_checks, pc>>

DisableInterrupt(interrupt) ==
    /\ CanCall
    /\ LET fails == array_assert_fails(interrupt, NVIC_ISER_REGISTERS)
       IN  /\ mem' = disable_interrupt(mem, interrupt)
           /\ aborted' = fails
           /\ hist' = Record(Call("disable_interrupt", "nvic", interrupt, 0, 0,
                                  IF fails THEN "panic" ELSE ""), mem')
    /\ UNCHANGED <<overflow_checks, pc>>

SetIrqLevel(irq_id, level) ==
    /\ CanCall
    /\ LET fails == set_irq_level_panics(irq_id)
       IN  /\ mem' = set_irq_level(mem, irq_id, level)
           /\ aborted' = fails
           /\ hist' = Record(Call("set_irq_level", "nvic", irq_id, level, 0,
                                  IF fails THEN "panic" ELSE ""), mem')
    /\ UNCHANGED <<overflow_checks, pc>>

NextNvic ==
    \/ \E interrupt \in InterruptIds : EnableInterrupt(interrupt)
    \/ \E interrupt \in InterruptIds : DisableInterrupt(interrupt)
    \/ \E irq_id \in InterruptIds, level \in IrqLevels : SetIrqLevel(irq_id, level)

SpecNvic == Init /\ [][NextNvic]_vars

(***************************************************************************)
(* Calls of the array variants on the list of the NVIC enable registers.   *)
(* A call whose assertion fails panics: it returns nothing and no call     *)
(* follows it.  get_bits_in_array records the word it returned in z.       *)
(***************************************************************************)
SetBitInArray(id) ==
    /\ CanCall
    /\ LET fails == array_assert_fails(id, NVIC_ISER_REGISTERS)
       IN  /\ mem' = set_bit_in_array(mem, id, NVIC_ISER_REGISTERS)
           /\ aborted' = fails
           /\ hist' = Record(Call("set_bit_in_array", "nvic", id, 0, 0,
                                  IF fails THEN "panic" ELSE ""), mem')
    /\ UNCHANGED <<overflow_checks, pc>>

ClearBitInArray(id) ==
    /\ CanCall
    /\ LET fails == array_assert_fails(id, NVIC_ISER_REGISTERS)
       IN  /\ mem' = clear_bit_in_array(mem, id, NVIC_ISER_REGISTERS)
           /\ aborted' = fails
           /\ hist' = Record(Call("clear_bit_in_array", "nvic", id, 0, 0,
                                  IF fails THEN "panic" ELSE ""), mem')
    /\ UNCHANGED <<overflow_checks, pc>>

WriteBitsInArray(id, value, mask) ==
    /\ CanCall
    /\ LET fails == array_assert_fails(id, NVIC_ISER_REGISTERS)
       IN  /\ mem' = write_bits_in_array(mem, id, ToWord(value), ToWord(mask),
                                         NVIC_ISER_REGISTERS)
           /\ aborted' = fails
           /\ hist' = Record(Call("write_bits_in_array", "nvic", id, value, mask,
                                  IF fails THEN "panic" ELSE ""), mem')
    /\ UNCHANGED <<overflow_checks, pc>>

GetBitsInArray(id, mask) ==
    /\ CanCall
    /\ LET fails == array_assert_fails(id, NVIC_ISER_REGISTERS)
       IN  /\ aborted' = fails
           /\ hist' = Record(Call("get_bits_in_array", "nvic", id, mask,
                                  get_bits_in_array(mem, id, ToWord(mask), NVIC_ISER_REGISTERS),
                                  IF fails THEN "panic" ELSE ""), mem)
    /\ UNCHANGED <<mem, overflow_checks, pc>>

NextArray ==
    \/ \E id \in InterruptIds : Calls < MaxArrayCalls /\ SetBitInArray(id)
    \/ \E id \in InterruptIds : Calls < MaxArrayCalls /\ ClearBitInArray(id)
    \/ \E id \in InterruptIds, value \in ArrayValues, mask \in ArrayMasks :
          Calls < MaxArrayCalls /\ WriteBitsInArray(id, value, mask)
    \/ \E id \in InterruptIds, mask \in ArrayMasks :
          Calls < MaxArrayCalls /\ GetBitsInArray(id, mask)
    \/ \E id \in InterruptIds : Calls < MaxArrayCalls /\ EnableInterrupt(id)
    \/ \E id \in InterruptIds : Calls < MaxArrayCalls /\ DisableInterrupt(id)

SpecArray == Init /\ [][NextArray]_vars

(***************************************************************************)
(* Calls of the timer driver.                                              *)
(***************************************************************************)
SetupCyclicalTimer(timer, clock_frequency, interval_ms) ==
    /\ CanCall
    /\ LET r == setup_cyclical_timer(mem, timer, clock_frequency, interval_ms)
       IN  /\ mem' = r.mem
           /\ aborted' = (r.ret = "panic")
           /\ hist' = Record(Call("setup_cyclical_timer", timer, clock_frequency,
                                  interval_ms, 0, r.ret), mem')
    /\ UNCHANGED <<overflow_checks, pc>>

CleanupTimer(timer) ==
    /\ CanCall
    /\ mem' = cleanup_timer(mem, timer)
    /\ hist' = Record(Call("cleanup_timer", timer, 0, 0, 0, ""), mem')
    /\ UNCHANGED <<overflow_checks, aborted, pc>>

NextTimer ==
    \/ \E timer \in Timer, clock_frequency \in ClockFrequencies, interval_ms \in Intervals :
          SetupCyclicalTimer(timer, clock_frequency, interval_ms)
    \/ \E timer \in Timer : CleanupTimer(timer)

\* Timer start and stop from the reset register file.
SpecTimer == InitTimer /\ [][NextTimer]_vars

NextTimerAny ==
    \/ \E timer \in Timer, clock_frequency \in ClockFrequencies, interval_ms \in Intervals :
          Calls < MaxAnyCalls /\ SetupCyclicalTimer(timer, clock_frequency, interval_ms)
    \/ \E timer \in Timer : Calls < MaxAnyCalls /\ CleanupTimer(timer)

\* Timer start and stop on a timer found in an arbitrary state.
SpecTimerAny == InitTimerAny /\ [][NextTimerAny]_vars

\* The counter-enable bit of the timer is set.
IsCounting(m, timer) == get_bit(m, get_cr1_control_register(timer), CEN) = 1

(***************************************************************************)
(* Reads of the running counter.  A read records the value it returned in  *)
(* the z field of its call.                                                *)
(***************************************************************************)
GetNowUs(timer) ==
    /\ CanCall
    /\ hist' = Record(Call("get_now_us", timer, 0, 0, get_now_us(mem, timer), ""), mem)
    /\ UNCHANGED <<mem, overflow_checks, aborted, pc>>

GetNowNs(timer) ==
    /\ CanCall
    /\ hist' = Record(Call("get_now_ns", timer, 0, 0, get_now_ns(mem, timer), ""), mem)
    /\ UNCHANGED <<mem, overflow_checks, aborted, pc>>

\* The counter of a timer whose counter-enable bit is set advances.
TimerCounts(timer, ticks) ==
    /\ ~aborted
    /\ IsCounting(mem, timer)
    /\ mem' = timer_counts(mem, timer, ticks)
    /\ UNCHANGED <<hist, overflow_checks, aborted, pc>>

NextClock ==
    \/ \E timer \in ClockTimers, interval_ms \in ClockIntervals :
          SetupCyclicalTimer(timer, 16000000, interval_ms)
    \/ \E timer \in ClockTimers : GetNowUs(timer)
    \/ \E timer \in ClockTimers : GetNowNs(timer)
    \/ \E timer \in ClockTimers, ticks \in TickSteps : TimerCounts(timer, ticks)

SpecClock == Init /\ [][NextClock]_vars

(***************************************************************************)
(* Calls of the GPIO pin driver.  The descriptor is recorded in x.         *)
(***************************************************************************)
GpioSetup(self) ==
    /\ CanCallUpTo(MaxGpioCalls)
    /\ mem' = Gpio_setup(mem, self)
    /\ hist' = Record(Call("Gpio_setup", self.register, self, 0, 0, ""), mem')
    /\ UNCHANGED <<overflow_checks, aborted, pc>>

NextGpio == \E self \in GpioDescriptors : GpioSetup(self)

SpecGpio == InitGpio /\ [][NextGpio]_vars

\* Applies of descriptors that differ only in their speed.
NextSpeed == \E self \in SpeedDescriptors : GpioSetup(self)

SpecSpeed == InitGpio /\ [][NextSpeed]_vars

(***************************************************************************)
(* Calls of the serial driver, and the transmitter hardware.               *)
(***************************************************************************)
SetupUsart(usart, clock_speed, baud_rate) ==
    /\ CanCallUsart
    /\ mem' = setup_usart(mem, clock_speed, baud_rate, usart)
    /\ hist' = Record(Call("setup_usart", usart, clock_speed, baud_rate, 0, ""), mem')
    /\ UNCHANGED <<overflow_checks, aborted, pc>>

CleanupUsart(usart) ==
    /\ CanCallUsart
    /\ mem' = cleanup_usart(mem, usart)
    /\ hist' = Record(Call("cleanup_usart", usart, 0, 0, 0, ""), mem')
    /\ UNCHANGED <<overflow_checks, aborted, pc>>

IsUsartSetup(usart) ==
    /\ CanCallUsart
    /\ hist' = Record(Call("is_usart_setup", usart, 0, 0, 0,
                           IF is_usart_setup(mem, usart) THEN "true" ELSE "false"), mem)
    /\ UNCHANGED <<mem, overflow_checks, aborted, pc>>

\* The call of write_usart_character up to its return or its busy-wait.
WriteUsartCharacter(usart, character) ==
    /\ CanCallUsart
    /\ IF write_usart_character_enters_wait(mem, usart)
       THEN /\ pc' = [at |-> "busy_wait", usart |-> usart, character |-> character]
            /\ hist' = Record(Call("write_usart_character", usart, character, 0, 0,
                                   "busy_wait"), mem)
       ELSE /\ pc' = pc
            /\ hist' = Record(Call("write_usart_character", usart, character, 0, 0,
                                   "returned"), mem)
    /\ UNCHANGED <<mem, overflow_checks, aborted>>

\* The busy-wait sees the transmit-empty bit set: the call stores the
\* character and returns.  While the bit is clear the call spins, which
\* changes nothing.
WriteUsartCharacterStore ==
    /\ pc.at = "busy_wait"
    /\ ~write_usart_character_spins(mem, pc.usart)
    /\ mem' = write_usart_character_store(mem, pc.usart, pc.character)
    /\ hist' = [hist EXCEPT ![Calls] = [@ EXCEPT !.call.ret = "written", !.after = mem']]
    /\ pc' = Idle
    /\ UNCHANGED <<overflow_checks, aborted>>

\* The transmitter sets or clears the transmit-empty status bit on its own.
HardwareTxe(usart, level) ==
    /\ ~aborted
    /\ mem' = IF level = 1 THEN set_bit(mem, isr_usart_interrupt_register(usart), TXE)
               ELSE clear_bit(mem, isr_usart_interrupt_register(usart), TXE)
    /\ mem' # mem
    /\ UNCHANGED <<hist, overflow_checks, aborted, pc>>

NextUsart ==
    \/ \E usart \in USART, clock_speed \in UsartClocks, baud_rate \in BaudRates :
          SetupUsart(usart, clock_speed, baud_rate)
    \/ \E usart \in USART : CleanupUsart(usart)
    \/ \E usart \in USART : IsUsartSetup(usart)
    \/ \E usart \in USART, character \in Characters : WriteUsartCharacter(usart, character)
    \/ WriteUsartCharacterStore
    \/ \E usart \in USART, level \in {0, 1} : HardwareTxe(usart, level)

SpecUsart == Init /\ [][NextUsart]_vars

NextUsartAny ==
    \/ \E usart \in USART, clock_speed \in UsartClocks : SetupUsart(usart, clock_speed, 115200)
    \/ \E usart \in USART : IsUsartSetup(usart)
    \/ \E usart \in USART, character \in Characters : WriteUsartCharacter(usart, character)
    \/ WriteUsartCharacterStore
    \/ \E usart \in USART, level \in {0, 1} : HardwareTxe(usart, level)

\* The serial driver on a port found in an arbitrary state.
SpecUsartAny == InitUsartAny /\ [][NextUsartAny]_vars

\* The transmitter takes the character out of the data register and clears
\* transmit-empty on its own only while no call polls the bit: once set, the
\* bit stays set until a character is written.
NextUsartLive ==
    \/ \E usart \in USART, character \in LiveCharacters :
          WriteUsartCharacter(usart, character)
    \/ WriteUsartCharacterStore
    \/ \E usart \in USART : HardwareTxe(usart, 1)
    \/ \E usart \in USART : pc.at = "idle" /\ HardwareTxe(usart, 0)

\* The busy-wait keeps polling, so the call goes on once the bit is set and
\* stays set; the transmitter eventually sets the bit of each port.
SpecUsartLive ==
    /\ InitUsartAny
    /\ [][NextUsartLive]_vars
    /\ WF_vars(WriteUsartCharacterStore)
    /\ \A usart \in USART : WF_vars(HardwareTxe(usart, 1))

(***************************************************************************)
(* The configuration sequences followed primitive by primitive.  A call    *)
(* is recorded with the result "begin" when it starts, and each primitive  *)
(* call it makes is recorded after it as a step with the register file     *)
(* before and after it.                                                    *)
(***************************************************************************)
(***************************************************************************)
(* write_usart_string called from two execution contexts.                  *)
(***************************************************************************)
\* The position of a writer: "idle" outside a call, "wait" inside the
\* busy-wait of write_usart_character for the first character of todo,
\* "store" after the loop condition was read with transmit-empty set.
IdleWriter == [at |-> "idle", usart |-> "", todo |-> <<>>]

Writer(w) == IF pc.at = "strings" THEN pc.writers[w] ELSE IdleWriter

SetWriter(w, state) ==
    LET writers == [v \in Writers |-> IF v = w THEN state ELSE Writer(v)]
    IN  IF \A v \in Writers : writers[v].at = "idle"
        THEN Idle
        ELSE [at |-> "strings", writers |-> writers]

\* The for loop of write_usart_string moves to its next character: the call
\* of write_usart_character returns at once on a port that is not set up,
\* and enters its busy-wait otherwise.
RECURSIVE string_loop(_, _, _)
string_loop(m, usart, todo) ==
    IF todo = <<>> THEN IdleWriter
    ELSE IF write_usart_character_enters_wait(m, usart)
         THEN [at |-> "wait", usart |-> usart, todo |-> todo]
         ELSE string_loop(m, usart, Tail(todo))

StringCalls == Cardinality({i \in 1..Len(hist) : hist[i].call.op = "write_usart_string"})

\* The call of write_usart_string up to its return or its first busy-wait.
WriteUsartString(w, string, usart) ==
    /\ ~aborted
    /\ StringCalls < MaxStringCalls
    /\ Writer(w).at = "idle"
    /\ IF write_usart_string_enters_loop(mem, usart)
       THEN /\ pc' = SetWriter(w, string_loop(mem, usart, string))
            /\ hist' = Record(Call("write_usart_string", usart, 0, w, string, "begin"), mem)
       ELSE /\ pc' = SetWriter(w, IdleWriter)
            /\ hist' = Record(Call("write_usart_string", usart, 0, w, string, "returned"), mem)
    /\ UNCHANGED <<mem, overflow_checks, aborted>>

\* The loop condition of the busy-wait is read with transmit-empty set.
\* While the bit is clear the writer spins, which changes nothing.
StringPoll(w) ==
    /\ ~aborted
    /\ Writer(w).at = "wait"
    /\ ~write_usart_character_spins(mem, Writer(w).usart)
    /\ pc' = SetWriter(w, [Writer(w) EXCEPT !.at = "store"])
    /\ UNCHANGED <<mem, hist, overflow_checks, aborted>>

\* The writer stores the character in the data register, and the loop of
\* write_usart_string goes on with the rest of the string.
StringStore(w) ==
    /\ ~aborted
    /\ Writer(w).at = "store"
    /\ LET usart     == Writer(w).usart
           todo      == Writer(w).todo
           character == write_usart_string_character(todo)
       IN  /\ mem' = write_usart_character_store(mem, usart, character)
           /\ hist' = Record(Call("write_register", usart, character, w, todo, ""), mem')
           /\ pc' = SetWriter(w, string_loop(mem', usart, Tail(todo)))
    /\ UNCHANGED <<overflow_checks, aborted>>

NextString ==
    \/ \E w \in Writers, string \in Strings, usart \in USART : WriteUsartString(w, string, usart)
    \/ \E w \in Writers : StringPoll(w)
    \/ \E w \in Writers : StringStore(w)
    \/ \E usart \in USART : is_usart_setup(mem, usart) /\ HardwareTxe(usart, 1)
    \/ \E usart \in USART :
          last.op = "write_register" /\ last.tgt = usart /\ HardwareTxe(usart, 0)

\* The transmitter of an enabled port becomes empty on its own, and stops
\* being empty when it takes the character just written.
SpecString == InitUsartAny /\ [][NextString]_vars

\* Calls on ports that are stopped: the main flow stops ports, asks whether
\* they are ready, and writes characters and strings to them.
NextStop ==
    \/ \E usart \in USART : CleanupUsart(usart)
    \/ \E usart \in USART : IsUsartSetup(usart)
    \/ \E usart \in USART, character \in Characters : WriteUsartCharacter(usart, character)
    \/ WriteUsartCharacterStore
    \/ \E usart \in USART : CanCallUsart /\ WriteUsartString("main", <<72, 105>>, usart)
    \/ StringPoll("main")
    \/ StringStore("main")
    \/ \E usart \in USART : is_usart_setup(mem, usart) /\ HardwareTxe(usart, 1)

SpecStop == InitStop /\ [][NextStop]_vars

Begins == {i \in 1..Len(hist) : hist[i].call.ret = "begin"}

CanBegin == ~aborted /\ pc.at = "idle" /\ Cardinality(Begins) < MaxStepCalls

Begin(call, steps) ==
    /\ hist' = Record(call, mem)
    /\ pc' = IF steps = <<>> THEN Idle ELSE [at |-> "steps", todo |-> steps]
    /\ UNCHANGED <<mem, overflow_checks>>

BeginSetupCyclicalTimer(timer, clock_frequency, interval_ms) ==
    /\ CanBegin
    /\ Begin(Call("setup_cyclical_timer", timer, clock_frequency, interval_ms, 0, "begin"),
             setup_cyclical_timer_steps(timer, clock_frequency, interval_ms))
    /\ aborted' = (setup_cyclical_timer(mem, timer, clock_frequency, interval_ms).ret = "panic")

BeginGpioSetup(self) ==
    /\ CanBegin
    /\ Begin(Call("Gpio_setup", self.register, self, 0, 0, "begin"), Gpio_setup_steps(self))
    /\ UNCHANGED aborted

BeginSetupUsart(usart, clock_speed, baud_rate) ==
    /\ CanBegin
    /\ Begin(Call("setup_usart", usart, clock_speed, baud_rate, 0, "begin"),
             setup_usart_steps(clock_speed, baud_rate, usart))
    /\ UNCHANGED aborted

\* The call in progress makes its next primitive call.
NextPrimitive ==
    /\ pc.at = "steps"
    /\ mem' = apply_step(mem, Head(pc.todo))
    /\ hist' = Record(Head(pc.todo), mem')
    /\ pc' = IF Len(pc.todo) = 1 THEN Idle ELSE [pc EXCEPT !.todo = Tail(@)]
    /\ UNCHANGED <<overflow_checks, aborted>>

NextSteps ==
    \/ \E timer \in Timer, interval_ms \in StepIntervals :
          BeginSetupCyclicalTimer(timer, 16000000, interval_ms)
    \/ \E self \in StepDescriptors : BeginGpioSetup(self)
    \/ \E usart \in USART : BeginSetupUsart(usart, 16000000, 115200)
    \/ NextPrimitive

SpecSteps == Init /\ [][NextSteps]_vars

(***************************************************************************)
(* A field operation of the main flow, its volatile read and its volatile  *)
(* write as two steps, and an interrupt handler that may run before, after *)
(* or between them.  The handler clears the update flag of a timer, as     *)
(* clear_timerN_interrupt_flag does, and runs to its end once it started.  *)
(***************************************************************************)
FieldOpRead(c) ==
    /\ CanCallUpTo(MaxPreemptEvents)
    /\ pc' = [at |-> "read_done", call |-> c, value_read |-> read_register(mem, c.tgt)]
    /\ hist' = Record([c EXCEPT !.ret = "read"], mem)
    /\ UNCHANGED <<mem, overflow_checks, aborted>>

FieldOpWrite ==
    /\ pc.at = "read_done"
    /\ mem' = field_op_write(mem, pc.call, pc.value_read)
    /\ hist' = Record([pc.call EXCEPT !.ret = "written"], mem')
    /\ pc' = Idle
    /\ UNCHANGED <<overflow_checks, aborted>>

InterruptHandler(timer) ==
    /\ ~aborted /\ Calls < MaxPreemptEvents
    /\ mem' = clear_timer_interrupt_flag(mem, timer)
    /\ hist' = Record(Call("clear_timer_interrupt_flag", timer, 0, 0, 0, ""), mem')
    /\ UNCHANGED <<overflow_checks, aborted, pc>>

NextPreempt ==
    \/ \E c \in PreemptOps : FieldOpRead(c)
    \/ FieldOpWrite
    \/ \E timer \in HandlerTimers : InterruptHandler(timer)

SpecPreempt == InitPreempt /\ [][NextPreempt]_vars

(***************************************************************************)
(* Properties.                                                             *)
(***************************************************************************)
IsSet(m, register, field) == field \in m[register]

LastIs(op) == last.op = op

\* The enable register and the bit of an interrupt line below 160.
IserRegister(id) == NVIC_ISER_REGISTERS[(id \div 32) + 1]

IserBit(id) == id % 32

\* The three enable bits of a timer: counter, update interrupt, NVIC line.
TimerBits(m, t) ==
    <<IsSet(m, get_cr1_control_register(t), CEN),
      IsSet(m, get_dier_interrupt_register(t), UIE),
      IsSet(m, IserRegister(get_nvic_interrupt_id(t)), IserBit(get_nvic_interrupt_id(t)))>>

\* C1: every timer start with clock_hz > 0 and interval_ms > 0 returns
\* success and leaves the prescaler register at clock_hz/1_000_000 - 1 and
\* the auto-reload register at interval_ms*1000 - 1, in 32-bit unsigned
\* arithmetic, clock_hz below 1_000_000 included.
C1_StartSucceedsAndPrograms ==
    (LastIs("setup_cyclical_timer") /\ last.x > 0 /\ last.y > 0) =>
        /\ last.ret = "Ok"
        /\ post[psc_prescaler_register(last.tgt)] =
              (IF last.x \div 1000000 = 0 THEN AllOnes ELSE ToWord((last.x \div 1000000) - 1))
        /\ post[arr_auto_load_register(last.tgt)] = ToWord(last.y * 1000 - 1)

\* C2: a timer start with clock_hz = 0 returns InvalidClockSpeed, one with
\* interval_ms = 0 and clock_hz > 0 returns InvalidInterval, and in both
\* cases the whole register file is the same after the call as before it,
\* whatever state the timer was in.
C2_RejectedStartTouchesNothing ==
    LastIs("setup_cyclical_timer") =>
        /\ (last.x = 0 => (last.ret = "InvalidClockSpeed" /\ post = pre /\ mem = pre))
        /\ ((last.x > 0 /\ last.y = 0) =>
                (last.ret = "InvalidInterval" /\ post = pre /\ mem = pre))

\* A start with interval 0 is rejected on a timer that is running.
C2_Witness ==
    /\ LastIs("setup_cyclical_timer")
    /\ last.x > 0 /\ last.y = 0
    /\ last.ret = "InvalidInterval"
    /\ TimerBits(pre, last.tgt) = <<TRUE, TRUE, TRUE>>
    /\ mem = pre

\* C3: for any prior value v and any pos, value, mask, write_bits leaves the
\* register equal to (v & ~(mask<<pos)) | ((value & mask)<<pos), also when
\* value has bits outside mask.
C3_WriteBitsStaysInsideMask ==
    LastIs("write_bits") =>
        post[last.tgt] =
            BitOr(BitAnd(pre[last.tgt], BitNot(Shl(ToWord(last.z), last.x))),
                  Shl(BitAnd(ToWord(last.y), ToWord(last.z)), last.x))

\* C4: for id < 160 and a level 0..15, set_priority(id, level) makes byte
\* id%4 of priority register id/4 equal to level<<4 and changes no other
\* byte of that register and no other register.
C4_PriorityInByteOfLine ==
    (LastIs("set_irq_level") /\ last.x < 160) =>
        LET reg  == NVIC_IPR_REGISTERS[(last.x \div 4) + 1]
            byte == {i \in BitPos : i \div 8 = last.x % 4}
        IN  post = [pre EXCEPT ![reg] =
                       (pre[reg] \ byte) \cup Shl(ToWord(last.y * 16), (last.x % 4) * 8)]

\* C5: serial start with (clock_hz, baud_rate) writes floor(clock_hz /
\* (baud_rate*16)) into bits 4..15 of the baud-rate register and the
\* fractional part times 16, rounded to nearest, into bits 0..3; for
\* 16,000,000 and 115,200 these are 8 and 11.
C5_BaudDivisorRounded ==
    LastIs("setup_usart") =>
        LET brr == post[brr_usart_baud_rate_register(last.tgt)]
            d   == last.y * 16
            rem == last.x % d
        IN  /\ Field(brr, 4, 12) = ToWord(last.x \div d)
            /\ Field(brr, 0, 4) = ToWord((2 * rem + last.y) \div (2 * last.y))
            /\ (last.x = 16000000 /\ last.y = 115200) =>
                   (Field(brr, 4, 12) = ToWord(8) /\ Field(brr, 0, 4) = ToWord(11))

\* The calls that change the state of timer t: its stops and its accepted starts.
EffectiveCalls(t) ==
    {i \in 1..Calls :
        /\ hist[i].call.tgt = t
        /\ \/ hist[i].call.op = "cleanup_timer"
           \/ (hist[i].call.op = "setup_cyclical_timer" /\ hist[i].call.ret = "Ok")}

LastEffective(t) == CHOOSE i \in EffectiveCalls(t) : \A j \in EffectiveCalls(t) : j <= i

\* Timer t is Running: its last call that was not rejected was a start.
Running(t) ==
    /\ EffectiveCalls(t) # {}
    /\ hist[LastEffective(t)].call.op = "setup_cyclical_timer"

\* C6: between the calls of any sequence of starts and stops from reset, the
\* counter-enable bit, the update-interrupt-enable bit and the NVIC line of
\* each timer are all set, exactly when the timer is Running, or all clear;
\* a stop always yields all clear.
C6_TimerBitsMoveTogether ==
    \A t \in Timer :
        /\ TimerBits(mem, t) = IF Running(t) THEN <<TRUE, TRUE, TRUE>>
                                ELSE <<FALSE, FALSE, FALSE>>
        /\ (LastIs("cleanup_timer") /\ last.tgt = t) =>
               TimerBits(post, t) = <<FALSE, FALSE, FALSE>>

\* One timer was started and stopped again while another one keeps running.
C6_Witness ==
    /\ LastIs("cleanup_timer")
    /\ TimerBits(pre, last.tgt) = <<TRUE, TRUE, TRUE>>
    /\ TimerBits(mem, last.tgt) = <<FALSE, FALSE, FALSE>>
    /\ \E t \in Timer \ {last.tgt} : Running(t) /\ TimerBits(mem, t) = <<TRUE, TRUE, TRUE>>

\* C7: a second stop of the same timer leaves the register file as the first
\* stop left it, from any register state, and after a stop (also of a timer
\* that was never started) counter-enable, update-interrupt-enable and the
\* NVIC line are clear.
C7_StopIdempotent ==
    LastIs("cleanup_timer") =>
        /\ TimerBits(post, last.tgt) = <<FALSE, FALSE, FALSE>>
        /\ (prev.op = "cleanup_timer" /\ prev.tgt = last.tgt) => post = pre

\* A timer found with its three bits set is stopped twice.
C7_Witness ==
    /\ LastIs("cleanup_timer")
    /\ prev.op = "cleanup_timer" /\ prev.tgt = last.tgt
    /\ TimerBits(pre2, last.tgt) = <<TRUE, TRUE, TRUE>>
    /\ post = pre

\* C8: is_ready returns true exactly when the transmit-enable bit and the
\* port-enable bit of the port's control register are both set at the time
\* of the call; both are set right after start, so is_ready is then true.
C8_ReadyIffBothBits ==
    /\ LastIs("is_usart_setup") =>
           (last.ret = "true" <=>
               (IsSet(pre, get_cr_usart_control_register(last.tgt), TE)
                /\ IsSet(pre, get_cr_usart_control_register(last.tgt), UE)))
    /\ LastIs("setup_usart") =>
           (IsSet(post, get_cr_usart_control_register(last.tgt), TE)
            /\ IsSet(post, get_cr_usart_control_register(last.tgt), UE))
    /\ (LastIs("is_usart_setup") /\ prev.op = "setup_usart" /\ prev.tgt = last.tgt) =>
           last.ret = "true"

\* A port found with only one of the two bits set was not ready; after its
\* start, is_ready is true.
C8_Witness ==
    /\ LastIs("is_usart_setup") /\ last.ret = "true"
    /\ prev.op = "setup_usart" /\ prev.tgt = last.tgt
    /\ IsSet(pre2, get_cr_usart_control_register(last.tgt), TE)
    /\ ~IsSet(pre2, get_cr_usart_control_register(last.tgt), UE)

\* C9: write_character on a port that is not ready returns at once: it does
\* not enter the busy-wait and writes no register, whatever the
\* transmit-empty bit is.
C9_NotReadyWriteIsNoop ==
    (LastIs("write_usart_character")
     /\ ~(IsSet(pre, get_cr_usart_control_register(last.tgt), TE)
          /\ IsSet(pre, get_cr_usart_control_register(last.tgt), UE))) =>
        /\ last.ret = "returned"
        /\ pc.at = "idle"
        /\ post = pre

\* The port has transmit-enable but not port-enable, transmit-empty is set,
\* and the call returned without a write.
C9_Witness ==
    /\ LastIs("write_usart_character") /\ last.ret = "returned"
    /\ IsSet(pre, get_cr_usart_control_register(last.tgt), TE)
    /\ ~IsSet(pre, get_cr_usart_control_register(last.tgt), UE)
    /\ IsSet(pre, isr_usart_interrupt_register(last.tgt), TXE)
    /\ post = pre

\* enable(id) directly followed by disable(id), both returning.
EnableThenDisable ==
    /\ prev.op = "enable_interrupt" /\ prev.ret # "panic"
    /\ LastIs("disable_interrupt") /\ last.ret # "panic"
    /\ prev.x = last.x

\* C10 as stated: enable(id) followed by disable(id) leaves the enable bit of
\* id at its value before the enable call, whether that was 0 or 1, and
\* leaves every other enable bit unchanged.
C10_EnableDisableRestores == EnableThenDisable => post = pre2

\* C10 as amended: enable(id) followed by disable(id) leaves the enable bit
\* of id clear, which is its value before the enable call only when that
\* value was 0, and leaves every other enable bit unchanged.
C10_EnableDisableClears ==
    EnableThenDisable =>
        post = [pre2 EXCEPT ![IserRegister(last.x)] = @ \ {IserBit(last.x)}]

\* The line was enabled before the pair of calls and is disabled after it.
C10_Witness ==
    /\ EnableThenDisable
    /\ IsSet(pre2, IserRegister(last.x), IserBit(last.x))
    /\ ~IsSet(post, IserRegister(last.x), IserBit(last.x))

\* Two reads of the same kind of one timer in a row, the timer running at both.
SuccessiveReads(op) ==
    /\ LastIs(op) /\ prev.op = op /\ prev.tgt = last.tgt
    /\ IsCounting(pre2, last.tgt) /\ IsCounting(pre, last.tgt)

\* C11: for a running timer whose counter advances and rolls over at the
\* auto-reload value, the later of two successive now_us reads, and of two
\* successive now_ns reads, returns a value that is not below the earlier one.
C11_NowMonotonic ==
    /\ SuccessiveReads("get_now_us") => last.z >= prev.z
    /\ SuccessiveReads("get_now_ns") => last.z >= prev.z

ArrayOps ==
    {"set_bit_in_array", "clear_bit_in_array", "write_bits_in_array", "get_bits_in_array",
     "enable_interrupt", "disable_interrupt"}

\* The registers whose value the latest call changed.
Modified == {r \in Registers : post[r] # pre[r]}

\* C12: an array-indexed operation with id selects register id/32 of the
\* list and bit id%32.  When id/32 is not below the length of the list (id
\* >= 160 for the five NVIC enable registers) the call aborts, the register
\* file is as before and no call follows; otherwise no register but the
\* selected one is modified: set and enable set its bit id%32 and nothing
\* else, clear and disable clear it and nothing else, write leaves the bits
\* below id%32 alone, and get returns the selected register masked with
\* mask << id%32 and modifies nothing.
C12_ArrayIndexing ==
    (last.op \in ArrayOps) =>
        LET id  == last.x
            bit == id % 32
        IN  IF id \div 32 >= Len(NVIC_ISER_REGISTERS)
            THEN last.ret = "panic" /\ aborted /\ post = pre /\ mem = pre
            ELSE LET reg == NVIC_ISER_REGISTERS[(id \div 32) + 1]
                 IN  /\ last.ret # "panic" /\ ~aborted
                     /\ Modified \subseteq {reg}
                     /\ last.op \in {"set_bit_in_array", "enable_interrupt"} =>
                            post[reg] = pre[reg] \cup {bit}
                     /\ last.op \in {"clear_bit_in_array", "disable_interrupt"} =>
                            post[reg] = pre[reg] \ {bit}
                     /\ last.op = "write_bits_in_array" =>
                            /\ {i \in post[reg] : i < bit} = {i \in pre[reg] : i < bit}
                            /\ (0 \in ToWord(last.z)) => ((bit \in post[reg]) <=> (0 \in ToWord(last.y)))
                     /\ last.op = "get_bits_in_array" =>
                            /\ last.z = pre[reg] \cap {i + bit : i \in ToWord(last.y)}
                            /\ post = pre

\* Line 159 was set in the last register of the list, bit 31, and nothing
\* else changed; then a call with id 160 aborted and left the register file
\* as it was.
C12_Witness ==
    /\ prev.op = "set_bit_in_array" /\ prev.x = 159
    /\ pre = [pre2 EXCEPT !["ISER4"] = {31}]
    /\ LastIs("set_bit_in_array") /\ last.x = 160 /\ last.ret = "panic"
    /\ aborted /\ mem = pre

\* The fields of pin p that Gpio::setup is to configure: mode and pull at
\* bits p*2 and p*2+1, output type at bit p.
PinFields(m, register, p) ==
    <<Field(m[moder_register(register)], p * 2, 2),
      p \in m[otyper_register(register)],
      Field(m[pupdr_register(register)], p * 2, 2)>>

\* Two applies in a row of descriptors that name the same port and pin.
SamePinTwice ==
    /\ LastIs("Gpio_setup") /\ prev.op = "Gpio_setup"
    /\ prev.x.register = last.x.register /\ prev.x.pin = last.x.pin

\* C13: for two descriptors d1 and d2 that name the same port and pin, the
\* mode, output-type and pull fields of the pin after apply(d1) then
\* apply(d2) are those after apply(d2) alone from the same initial register
\* file.
C13_LastApplyWins ==
    SamePinTwice =>
        PinFields(post, last.x.register, last.x.pin) =
            PinFields(Gpio_setup(pre2, last.x), last.x.register, last.x.pin)

\* The two descriptors disagree on mode, output type and pull, and the first
\* apply had changed all three fields.
C13_Witness ==
    /\ SamePinTwice
    /\ prev.x.mode # last.x.mode
    /\ prev.x.output_mode # last.x.output_mode
    /\ prev.x.pull # last.x.pull
    /\ \A i \in 1..3 : PinFields(pre, last.x.register, last.x.pin)[i]
                            # PinFields(pre2, last.x.register, last.x.pin)[i]
    /\ PinFields(post, last.x.register, last.x.pin) =
           PinFields(Gpio_setup(pre2, last.x), last.x.register, last.x.pin)

\* The same operation twice in a row on the same register and bit.
Twice(op) ==
    /\ LastIs(op) /\ prev.op = op
    /\ prev.tgt = last.tgt /\ prev.x = last.x

\* C14: two consecutive set_bit calls on the same register and bit leave the
\* register file as the first one left it, and two consecutive toggle_bit
\* calls on the same register and bit leave it as it was before the first,
\* for every prior value and every bit position 0..31.
C14_SetIdempotentToggleInvolution ==
    /\ Twice("set_bit") => (post = pre /\ last.x \in post[last.tgt])
    /\ Twice("toggle_bit") => (post = pre2 /\ pre # pre2)

\* Bit 31 of a register whose other bits were not all clear was toggled twice.
C14_Witness ==
    /\ Twice("toggle_bit") /\ last.x = 31
    /\ pre2[last.tgt] \notin {Zero, AllOnes}
    /\ (31 \in pre[last.tgt]) # (31 \in pre2[last.tgt])
    /\ post = pre2

\* The latest call that began, the register file it started from, and the
\* primitive calls it has made so far.
CallStart == CHOOSE i \in Begins : \A j \in Begins : j <= i

current == IF Begins = {} THEN NoCall ELSE hist[CallStart].call

StepsDone ==
    IF Begins = {} THEN <<>>
    ELSE [i \in 1..(Len(hist) - CallStart) |-> hist[CallStart + i].call]

Returned == pc.at = "idle"

\* What a step does, without the value it writes.
StepKind(c) ==
    IF c.op \in {"write_register"} THEN <<c.op, c.tgt>>
    ELSE <<c.op, c.tgt, c.x>>

IsPrefix(a, b) == Len(a) <= Len(b) /\ \A i \in 1..Len(a) : a[i] = b[i]

Kinds(steps) == [i \in 1..Len(steps) |-> StepKind(steps[i])]

\* The order of writes that C15 states for a start of timer t.
TimerStartOrder(t) ==
    <<<<"set_bit", "rcc::APB1LENR", apb1lenr_clock_field(t)>>,
      <<"write_register", psc_prescaler_register(t)>>,
      <<"write_register", arr_auto_load_register(t)>>,
      <<"set_bit", get_egr_event_generator_register(t), UG>>,
      <<"set_bit", get_dier_interrupt_register(t), UIE>>,
      <<"enable_interrupt", "nvic", get_nvic_interrupt_id(t)>>,
      <<"set_bit", get_cr1_control_register(t), CEN>>>>

AcceptedTimerStart ==
    /\ current.op = "setup_cyclical_timer"
    /\ current.x # 0 /\ current.y # 0

\* C15: an accepted timer start makes its register writes in this order: set
\* the bus-clock enable, write the prescaler, write the auto-reload, set the
\* update-generation bit, set update-interrupt-enable, enable the NVIC line,
\* set counter-enable.  At every point of the call the writes made so far are
\* a prefix of that order, so counter-enable is set only after the forced
\* update that follows the prescaler and auto-reload writes, also when the
\* timer is already running; when the call has returned all seven were made
\* and the register file is the one setup_cyclical_timer yields.
C15_TimerStartOrder ==
    AcceptedTimerStart =>
        /\ IsPrefix(Kinds(StepsDone), TimerStartOrder(current.tgt))
        /\ Returned =>
               /\ Len(StepsDone) = 7
               /\ mem = setup_cyclical_timer(hist[CallStart].before, current.tgt,
                                             current.x, current.y).mem

\* A timer that is already running was started again, and the second start
\* has returned.
C15_Witness ==
    /\ AcceptedTimerStart /\ Returned
    /\ IsSet(hist[CallStart].before, get_cr1_control_register(current.tgt), CEN)
    /\ Kinds(StepsDone) = TimerStartOrder(current.tgt)

\* The bus-clock enable bit of the peripheral that owns a register: the bus
\* register and the bit, or <<>> for a register that is not behind one.
ClockGate(register) ==
    IF \E t \in Timer : register \in {timer_module(t) \o x :
                 x \in {"::CR1", "::PSC", "::ARR", "::EGR", "::DIER", "::SR", "::CNT"}}
    THEN LET t == CHOOSE t \in Timer : register \in {timer_module(t) \o x :
                 x \in {"::CR1", "::PSC", "::ARR", "::EGR", "::DIER", "::SR", "::CNT"}}
         IN  <<"rcc::APB1LENR", apb1lenr_clock_field(t)>>
    ELSE IF \E u \in USART : register \in {usart_module(u) \o x :
                 x \in {"::CR1", "::BRR", "::ISR", "::TDR"}}
    THEN LET u == CHOOSE u \in USART : register \in {usart_module(u) \o x :
                 x \in {"::CR1", "::BRR", "::ISR", "::TDR"}}
         IN  <<"rcc::APB1LENR", get_apb1lenr_usart_clock_enable_field(u)>>
    ELSE IF \E g \in GpioRegister : register \in {gpio_module(g) \o x :
                 x \in {"::MODER", "::OTYPER", "::PUPDR", "::AFRL", "::AFRH", "::IDR", "::ODR"}}
    THEN LET g == CHOOSE g \in GpioRegister : register \in {gpio_module(g) \o x :
                 x \in {"::MODER", "::OTYPER", "::PUPDR", "::AFRL", "::AFRH", "::IDR", "::ODR"}}
         IN  <<"rcc::AHB4ENR", ahb1_en_field(g)>>
    ELSE <<>>

\* C16: in every configuration sequence (GPIO apply, timer start, serial
\* start) each primitive call on a register of a GPIO port, timer or serial
\* port comes after a call of the same sequence that set the bus-clock enable
\* bit of that peripheral.
C16_ClockBeforeAccess ==
    \A i \in 1..Len(StepsDone) :
        LET gate == ClockGate(StepsDone[i].tgt)
        IN  gate # <<>> =>
                \E j \in 1..(i - 1) :
                    /\ StepsDone[j].op = "set_bit"
                    /\ StepsDone[j].tgt = gate[1]
                    /\ StepsDone[j].x = gate[2]

\* The order of primitive calls that C17 states for a start of port u.
UsartStartOrder(u) ==
    <<<<"clear_bit", get_cr_usart_control_register(u), UE>>,
      <<"set_bit", "rcc::APB1LENR", get_apb1lenr_usart_clock_enable_field(u)>>,
      <<"set_bit", "rcc::AHB4ENR", ahb4enr_gpio_clock_enable_field(u)>>>>
    \o Kinds(Gpio_setup_steps(usart_tx_gpio(u)))
    \o Kinds(Gpio_setup_steps(usart_rx_gpio(u)))
    \o <<<<"write_bits", brr_usart_baud_rate_register(u), BRR_4_15>>,
          <<"write_bits", brr_usart_baud_rate_register(u), BRR_0_3>>,
          <<"set_bit", get_cr_usart_control_register(u), TE>>,
          <<"set_bit", get_cr_usart_control_register(u), UE>>>>

\* C17: a serial start makes its primitive calls in this order: clear
\* port-enable, set the port's bus-clock enable, set the GPIO port's clock
\* enable, apply the TX pin, apply the RX pin, write the mantissa, write the
\* fraction, set transmit-enable, set port-enable.  Every write of the
\* baud-rate register finds port-enable clear, and the call that sets
\* port-enable is the last one, also when the port is already enabled; when
\* the call has returned the register file is the one setup_usart yields.
C17_UsartStartOrder ==
    current.op = "setup_usart" =>
        /\ IsPrefix(Kinds(StepsDone), UsartStartOrder(current.tgt))
        /\ \A i \in 1..Len(StepsDone) :
               LET c == hist[CallStart + i]
               IN  /\ c.call.tgt = brr_usart_baud_rate_register(current.tgt) =>
                          ~IsSet(c.before, get_cr_usart_control_register(current.tgt), UE)
                   /\ (c.call.op = "set_bit" /\ c.call.x = UE
                       /\ c.call.tgt = get_cr_usart_control_register(current.tgt)) =>
                          (i = Len(StepsDone) /\ Returned)
        /\ Returned =>
               /\ Len(StepsDone) = Len(UsartStartOrder(current.tgt))
               /\ mem = setup_usart(hist[CallStart].before, current.x, current.y, current.tgt)

\* A port that is already enabled was started again, and the second start
\* has returned with the port enabled.
C17_Witness ==
    /\ current.op = "setup_usart" /\ Returned
    /\ IsSet(hist[CallStart].before, get_cr_usart_control_register(current.tgt), UE)
    /\ Kinds(StepsDone) = UsartStartOrder(current.tgt)
    /\ IsSet(mem, get_cr_usart_control_register(current.tgt), UE)

\* The main flow has just completed a field operation: the position in the
\* history of its read, and the handler runs between its read and its write
\* that wrote the register of the operation.
Completed == Calls > 0 /\ last.ret = "written"

ReadAt == CHOOSE i \in 1..Calls : hist[i].call.ret = "read" /\ \A j \in (i + 1)..Calls : hist[j].call.ret # "read"

HandlerBetween ==
    {i \in (ReadAt + 1)..(Calls - 1) :
        /\ hist[i].call.op = "clear_timer_interrupt_flag"
        /\ sr_status_register(hist[i].call.tgt) = last.tgt}

\* C18: when an interrupt handler does a read-modify-write of register R
\* between the read and the write of a field operation of the main flow on R,
\* the register holds, after the operation, the value the operation computes
\* from what it read: what the handler wrote is lost.  When no handler wrote
\* R between the two, the operation acts on the value the register holds when
\* it completes, so a handler that ran before it, after it or on another
\* register loses nothing.  The operation writes no other register.
C18_LostUpdate ==
    Completed =>
        /\ HandlerBetween # {} =>
               post[last.tgt] = apply_step(hist[ReadAt].before, last)[last.tgt]
        /\ HandlerBetween = {} => post = apply_step(pre, last)
        /\ \A r \in Registers \ {last.tgt} : post[r] = pre[r]

\* The handler cleared the update flag of tim2::SR between the read and the
\* write of a set_bit of another bit of that register, and the flag is set
\* again after the write.
C18_Witness ==
    /\ Completed /\ last.op = "set_bit" /\ last.x # UIF
    /\ HandlerBetween # {}
    /\ UIF \in hist[ReadAt].before[last.tgt]
    /\ UIF \notin pre[last.tgt]
    /\ UIF \in post[last.tgt]

\* C19: Gpio::setup for pin p writes the 2-bit pull of the descriptor into
\* bits p*2 and p*2+1 of the pull register of the port, the 2-bit mode into
\* bits p*2 and p*2+1 of the mode register, and the output type into bit p of
\* the output-type register (0 = push-pull, 1 = open-drain).
C19_FieldPositions ==
    LastIs("Gpio_setup") =>
        PinFields(post, last.x.register, last.x.pin) =
            <<ToWord(last.x.mode), last.x.output_mode = OpenDrain, ToWord(last.x.pull)>>

\* C20: Gpio::setup writes the alternate-function selector only when the
\* mode of the descriptor is Alternate.  For any other mode both
\* alternate-function registers of the port are as before, whatever the
\* selector; for Alternate the nibble at (pin%8)*4 of the low register (pins
\* 0-7) or of the high register (pins 8-15) is the selector, and the other
\* nibbles and the other register are as before.
C20_AlternateOnlyWhenAlternate ==
    LastIs("Gpio_setup") =>
        LET low    == gpio_module(last.x.register) \o "::AFRL"
            high   == gpio_module(last.x.register) \o "::AFRH"
            reg    == IF last.x.pin <= 7 THEN low ELSE high
            other  == IF last.x.pin <= 7 THEN high ELSE low
            nibble == {i \in BitPos : i \div 4 = last.x.pin % 8}
        IN  IF last.x.mode = Alternate
            THEN /\ Field(post[reg], (last.x.pin % 8) * 4, 4) = ToWord(last.x.alternate)
                 /\ post[reg] \ nibble = pre[reg] \ nibble
                 /\ post[other] = pre[other]
            ELSE post[low] = pre[low] /\ post[high] = pre[high]

\* A pin of the high half was applied with a selector and a mode that is not
\* Alternate, which left both registers alone; then it was applied with mode
\* Alternate, which changed its nibble of the high register.
C20_Witness ==
    /\ SamePinTwice /\ last.x.pin = 9
    /\ prev.x.mode # Alternate /\ prev.x.alternate # 0
    /\ \A r \in {"gpiod::AFRL", "gpiod::AFRH"} : pre[r] = pre2[r]
    /\ last.x.mode = Alternate
    /\ post["gpiod::AFRH"] # pre["gpiod::AFRH"]
    /\ Field(post["gpiod::AFRH"], 4, 4) = ToWord(last.x.alternate)

\* A call of write_usart_character is inside its busy-wait.
Waiting == pc.at = "busy_wait"

\* C21: write_character on a ready port enters its busy-wait; while it waits
\* the data register is as the call found it; the call returns only in a
\* step that finds transmit-empty set, and that step writes the code point
\* of the character to the data register and nothing else; between call and
\* return only the status registers, which the transmitter drives, change;
\* with a transmitter that eventually sets transmit-empty the call returns.
C21_WaitsThenWritesOnce ==
    /\ [](LastIs("write_usart_character") =>
            /\ (is_usart_setup(pre, last.tgt) <=> last.ret # "returned")
            /\ Waiting =>
                   mem[tdr_usart_data_register(last.tgt)] = pre[tdr_usart_data_register(last.tgt)]
            /\ last.ret = "written" =>
                   \A register \in Registers \ {isr_usart_interrupt_register(usart) : usart \in USART} :
                       post[register] = IF register = tdr_usart_data_register(last.tgt)
                                        THEN ToWord(last.x) ELSE pre[register])
    /\ [][(Waiting /\ ~Waiting') =>
            /\ IsSet(mem, isr_usart_interrupt_register(pc.usart), TXE)
            /\ mem' = write_register(mem, tdr_usart_data_register(pc.usart),
                                     ToWord(pc.character))]_vars
    /\ [][(Waiting /\ ~IsSet(mem, isr_usart_interrupt_register(pc.usart), TXE)) =>
            (Waiting' /\ mem'[tdr_usart_data_register(pc.usart)]
                            = mem[tdr_usart_data_register(pc.usart)])]_vars
    /\ (Waiting ~> (~Waiting /\ last.ret = "written"))

\* A call on a ready port found transmit-empty clear, waited, and has written
\* the code point 8364 after the bit was set.
C21_Witness ==
    /\ LastIs("write_usart_character") /\ last.ret = "written" /\ last.x = 8364
    /\ is_usart_setup(pre, last.tgt)
    /\ ~IsSet(pre, isr_usart_interrupt_register(last.tgt), TXE)
    /\ IsSet(post, isr_usart_interrupt_register(last.tgt), TXE)
    /\ post[tdr_usart_data_register(last.tgt)] = ToWord(8364)

\* The calls of write_usart_string recorded so far, and for the call
\* recorded at position b: the position of the same writer's next call, and
\* the data-register writes that belong to the call.
StringCallsAt == {i \in 1..Len(hist) : hist[i].call.op = "write_usart_string"}

NextCallOf(b) ==
    LET later == {j \in StringCallsAt : j > b /\ hist[j].call.y = hist[b].call.y}
    IN  IF later = {} THEN Len(hist) + 1 ELSE CHOOSE j \in later : \A k \in later : j <= k

WritesOf(b) ==
    LET ByWriter(e) == e.call.op = "write_register" /\ e.call.y = hist[b].call.y
    IN  SelectSeq(SubSeq(hist, b + 1, NextCallOf(b) - 1), ByWriter)

StringReturned(b) == NextCallOf(b) <= Len(hist) \/ Writer(hist[b].call.y).at = "idle"

\* C22: no port stops being ready during these calls.  A call of
\* write_usart_string on a ready port writes, whatever the other writer does
\* in between, the characters of its string to the data register of its
\* port from the first one on, one write each, and has written all of them
\* when it returns; on a port that is not ready it returns without a write;
\* a writer leaves its busy-wait only in a step that reads transmit-empty
\* set, and stores a character only after such a step.
C22_StringInOrder ==
    /\ [](\A b \in StringCallsAt :
            LET c       == hist[b].call
                writes  == WritesOf(b)
                written == [i \in 1..Len(writes) |-> writes[i].call.x]
            IN  IF is_usart_setup(hist[b].before, c.tgt)
                THEN /\ IsPrefix(written, c.z)
                     /\ StringReturned(b) => written = c.z
                     /\ \A i \in 1..Len(writes) :
                           /\ writes[i].call.tgt = c.tgt
                           /\ writes[i].after =
                                 [writes[i].before EXCEPT ![tdr_usart_data_register(c.tgt)] =
                                      ToWord(c.z[i])]
                ELSE c.ret = "returned" /\ written = <<>> /\ hist[b].after = hist[b].before)
    /\ [][\A w \in Writers :
            /\ (Writer(w).at = "wait" /\ Writer(w)' # Writer(w)) =>
                   /\ IsSet(mem, isr_usart_interrupt_register(Writer(w).usart), TXE)
                   /\ Writer(w)'.at = "store"
                   /\ UNCHANGED <<mem, hist>>
            /\ (Len(hist') > Len(hist) /\ last'.op = "write_register" /\ last'.y = w) =>
                   Writer(w).at = "store"]_vars

\* Both writers have written their strings to the same port, and the euro
\* sign of one went out between the two characters of the other.
C22_Witness ==
    /\ Len(hist) = 5
    /\ \E u \in USART :
          /\ hist[3].call = Call("write_register", u, 72, "main", <<72, 105>>, "")
          /\ hist[4].call = Call("write_register", u, 8364, "handler", <<8364>>, "")
          /\ hist[5].call = Call("write_register", u, 105, "main", <<105>>, "")
    /\ \A w \in Writers : Writer(w).at = "idle"

\* The calls recorded after position i that name the port of call i.
LaterOnPort(i) == {j \in (i + 1)..Len(hist) : hist[j].call.tgt = hist[i].call.tgt}

\* C23: cleanup_usart leaves the port's bus-clock enable bit, transmit-enable
\* bit and port-enable bit clear and changes no other bit of any register;
\* from then on is_usart_setup answers false for the port, and
\* write_usart_character and write_usart_string return without changing a
\* register.
C23_StopClearsAndSilences ==
    \A i \in 1..Len(hist) :
        hist[i].call.op = "cleanup_usart" =>
            LET u      == hist[i].call.tgt
                cr     == get_cr_usart_control_register(u)
                en     == get_apb1lenr_usart_clock_enable_field(u)
                before == hist[i].before
                after  == hist[i].after
            IN  /\ ~IsSet(after, "rcc::APB1LENR", en)
                /\ ~IsSet(after, cr, TE)
                /\ ~IsSet(after, cr, UE)
                /\ ~is_usart_setup(after, u)
                /\ after = [before EXCEPT !["rcc::APB1LENR"] = @ \ {en},
                                          ![cr] = @ \ {TE, UE}]
                /\ \A j \in LaterOnPort(i) :
                       /\ hist[j].call.op # "write_register"
                       /\ hist[j].call.op = "is_usart_setup" => hist[j].call.ret = "false"
                       /\ hist[j].call.op \in {"write_usart_character", "write_usart_string"} =>
                              /\ hist[j].call.ret = "returned"
                              /\ hist[j].after = hist[j].before

\* A port that was ready with its clock on, among registers that are all
\* ones, was stopped, and a string written to it afterwards went nowhere.
C23_Witness ==
    /\ Len(hist) = 2
    /\ hist[1].call.op = "cleanup_usart"
    /\ is_usart_setup(hist[1].before, hist[1].call.tgt)
    /\ hist[1].before["rcc::APB1LENR"] = AllOnes
    /\ hist[1].before[brr_usart_baud_rate_register(hist[1].call.tgt)] = AllOnes
    /\ hist[2].call.op = "write_usart_string"
    /\ hist[2].call.tgt = hist[1].call.tgt
    /\ hist[2].call.z = <<72, 105>>
    /\ mem[tdr_usart_data_register(hist[1].call.tgt)] = AllOnes

\* C24: get_now_us returns the value of the counter register it read, and
\* get_now_ns returns that value times 1000.
C24_NowUnits ==
    /\ LastIs("get_now_us") => last.z = ToNat(pre[cnt_register(last.tgt)])
    /\ LastIs("get_now_ns") => last.z = ToNat(pre[cnt_register(last.tgt)]) * 1000

\* The alternate-function selector of pin p of a port.
PinSelector(m, register, p) == Field(m[afr_register(register, p)], (p % 8) * 4, 4)

\* C25: Gpio::setup for pin p of a port leaves the mode, output-type, pull
\* and alternate-function fields of every other pin of the port as they
\* were, and changes no register outside the port but its clock-enable bit
\* in rcc::AHB4ENR.
C25_OtherPinsUntouched ==
    LastIs("Gpio_setup") =>
        LET port == {gpio_module(last.x.register) \o x :
                        x \in {"::MODER", "::OTYPER", "::PUPDR", "::AFRL", "::AFRH"}}
        IN  /\ \A q \in (0..15) \ {last.x.pin} :
                   /\ PinFields(post, last.x.register, q) = PinFields(pre, last.x.register, q)
                   /\ PinSelector(post, last.x.register, q) = PinSelector(pre, last.x.register, q)
            /\ \A register \in Registers \ port :
                   post[register] =
                       IF register = "rcc::AHB4ENR"
                       THEN pre[register] \cup {ahb1_en_field(last.x.register)}
                       ELSE pre[register]

\* C26: the register file after Gpio::setup is the one the same descriptor
\* with any other speed produces from the same register file; in particular
\* the TX and RX pins of a serial port, which setup_usart asks to be
\* HighSpeed, are set up as with any other speed.
C26_SpeedIsInert ==
    /\ LastIs("Gpio_setup") =>
           \A speed \in GpioSpeed \ {last.x.speed} :
               post = Gpio_setup(pre, [last.x EXCEPT !.speed = speed])
    /\ \A self \in {usart_tx_gpio(usart) : usart \in USART}
                   \cup {usart_rx_gpio(usart) : usart \in USART} :
           LET as_requested == Gpio_setup(mem, self)
           IN  \A speed \in GpioSpeed \ {self.speed} :
                   Gpio_setup(mem, [self EXCEPT !.speed = speed]) = as_requested

\* The RX pin of USART3 was applied as setup_usart asks, with HighSpeed,
\* which changed the register file, and then with LowSpeed and nothing else
\* different, which changed nothing.
C26_Witness ==
    /\ LastIs("Gpio_setup") /\ prev.op = "Gpio_setup"
    /\ prev.x = usart_rx_gpio("USART3") /\ prev.x.speed = HighSpeed
    /\ last.x = [prev.x EXCEPT !.speed = LowSpeed]
    /\ pre2 # pre
    /\ post = pre

====
